---------------------------- MODULE Spec2Model ----------------------------
(***************************************************************************)
(* MTP device-side session engine (usb/device/mtp.py, class MTPInterface). *)
(*                                                                         *)
(* The engine is modelled at byte level: the host puts little-endian MTP   *)
(* containers on the wire, the transport delivers them in chunks into the  *)
(* RX buffer, the scheduled _process_rx parses one container per run and   *)
(* dispatches it, and handlers write Data/Response containers into the TX  *)
(* buffer, which the transport drains.                                     *)
(*                                                                         *)
(* Conventions                                                             *)
(*  - a byte is a number 0..255; buffers, payloads and paths are sequences *)
(*    (a path is the sequence of its character codes);                     *)
(*  - Python's None is <<>> and a present value x is <<x>>;                *)
(*  - a u32 v >= 2^31 is written v - 2^32 (0xFFFFFFFF is -1): TLC's        *)
(*    integers are 32 bits wide; U32/LE32 convert to and from the 4 bytes. *)
(***************************************************************************)
EXTENDS Integers, Sequences, FiniteSets, TLC

\* ------------------------------------------------------------ constants
_MTP_CONTAINER_TYPE_COMMAND == 1
_MTP_CONTAINER_TYPE_DATA == 2
_MTP_CONTAINER_TYPE_RESPONSE == 3
_MTP_CONTAINER_TYPE_EVENT == 4

_MTP_OPERATION_GET_DEVICE_INFO == 4097
_MTP_OPERATION_OPEN_SESSION == 4098
_MTP_OPERATION_CLOSE_SESSION == 4099
_MTP_OPERATION_GET_STORAGE_IDS == 4100
_MTP_OPERATION_GET_STORAGE_INFO == 4101
_MTP_OPERATION_GET_NUM_OBJECTS == 4102
_MTP_OPERATION_GET_OBJECT_HANDLES == 4103
_MTP_OPERATION_GET_OBJECT_INFO == 4104
_MTP_OPERATION_GET_OBJECT == 4105
_MTP_OPERATION_GET_PARTIAL_OBJECT == 4122
_MTP_OPERATION_DELETE_OBJECT == 4107
_MTP_OPERATION_SEND_OBJECT_INFO == 4108
_MTP_OPERATION_SEND_OBJECT == 4109

_MTP_RESPONSE_OK == 8193
_MTP_RESPONSE_GENERAL_ERROR == 8194
_MTP_RESPONSE_SESSION_NOT_OPEN == 8195
_MTP_RESPONSE_OPERATION_NOT_SUPPORTED == 8197
_MTP_RESPONSE_PARAMETER_NOT_SUPPORTED == 8198
_MTP_RESPONSE_INCOMPLETE_TRANSFER == 8199
_MTP_RESPONSE_INVALID_STORAGE_ID == 8200
_MTP_RESPONSE_INVALID_OBJECT_HANDLE == 8201
_MTP_RESPONSE_PARTIAL_DELETION == 8210
_MTP_RESPONSE_INVALID_PARENT_OBJECT == 8218
_MTP_RESPONSE_INVALID_PARAMETER == 8221
_MTP_RESPONSE_SESSION_ALREADY_OPEN == 8222

_MTP_FORMAT_UNDEFINED == 12288
_MTP_FORMAT_ASSOCIATION == 12289
_MTP_FORMAT_TEXT == 12292

_MAX_PACKET_SIZE == 64
_CONTAINER_HEADER_SIZE == 12
_BULK_EP_LEN == 64
_MTP_STORAGE_ID == 65537
\* 0xFFFFFFFF, the "all storages" / "all parents" wildcard (as a 32-bit value)
_WILDCARD == -1

\* ------------------------------------------------------------ sequences
None == <<>>
Some(x) == <<x>>

Min(a, b) == IF a <= b THEN a ELSE b
Max(a, b) == IF a >= b THEN a ELSE b

\* s[:n] and s[n:] of Python, for 0 <= n
Take(s, n) == [i \in 1..Min(n, Len(s)) |-> s[i]]
Drop(s, n) == [i \in 1..Max(Len(s) - n, 0) |-> s[i + n]]
\* s[a:b] of Python, 0-based, clipped to the sequence
Slice(s, a, b) == Take(Drop(s, a), Max(b - a, 0))

EndsWith(s, suffix) ==
    /\ Len(s) >= Len(suffix)
    /\ Drop(s, Len(s) - Len(suffix)) = suffix


\* ------------------------------------------------------------ byte codec
\* struct.pack("<H", n), struct.pack("<I", n), struct.unpack_from("<H"/"<I", s, off)
U16(n) == <<n % 256, (n \div 256) % 256>>
U32(n) == <<n % 256, (n \div 256) % 256, (n \div 65536) % 256, (n \div 16777216) % 256>>
LE16(s, off) == s[off + 1] + 256 * s[off + 2]
LE32(s, off) ==
    s[off + 1] + 256 * s[off + 2] + 65536 * s[off + 3]
    + 16777216 * (IF s[off + 4] >= 128 THEN s[off + 4] - 256 ELSE s[off + 4])
\* a < b on u32 values (a value written as a negative number is >= 2^31)
U32Less(a, b) ==
    IF a < 0 THEN b < 0 /\ a < b
    ELSE b < 0 \/ a < b

RECURSIVE U32Seq(_)
U32Seq(ps) == IF ps = <<>> THEN <<>> ELSE U32(Head(ps)) \o U32Seq(Tail(ps))

\* The 12-byte container header, _MTP_CONTAINER_HEADER_DESC:
\* length:u32, type:u16, code:u16, transaction_id:u32, little-endian.
ContainerHeader(length, type, code, tid) ==
    U32(length) \o U16(type) \o U16(code) \o U32(tid)
HdrLength(s) == LE32(s, 0)
HdrType(s) == LE16(s, 4)
HdrCode(s) == LE16(s, 6)
HdrTransactionId(s) == LE32(s, 8)

\* ------------------------------------------------------------ Buffer
\* usb.device.core.Buffer: a bounded byte buffer, here its readable bytes in
\* order (index 1 is the oldest byte) together with its capacity.
BufReadable(b) == Len(b)
BufWritable(b, size) == size - Len(b)
\* Buffer.write(w): copies what fits and returns; the rest of w is not written.
BufWrite(b, size, w) == b \o Take(w, Max(BufWritable(b, size), 0))
\* Buffer.finish_read(n): the first n readable bytes are gone.
BufFinishRead(b, n) == Drop(b, n)
\* Buffer.finish_write(n) after pend_write: the n received bytes are readable.
BufFinishWrite(b, data) == b \o data
\* Buffer.pend_write(wmax): the length of the window handed to the transport.
BufPendWriteLen(b, size, wmax) == Min(wmax, BufWritable(b, size))

\* ------------------------------------------------------------ bounds
\* Capacity of the RX and TX buffers (rx_size, tx_size of __init__).
RxSize == 80
TxSize == 16
\* Depth of the queue of scheduled _process_rx runs.
MaxSched == 2
\* The host stops sending while more than this many unconsumed bytes sit in
\* the RX buffer.
MaxBacklog == 4
\* The streaming host keeps at most this many bytes queued or unconsumed.
MaxStream == 28

\* ------------------------------------------------------------ state
VARIABLES
    mtp,     \* the MTPInterface object: the fields set in __init__
    fs,      \* the storage backend: path -> [dir, data]
    ep_in,   \* bytes of the pending IN transfer (0: none pending)
    ep_out,  \* window of the pending OUT transfer (0: none pending)
    wire,    \* bytes the host has sent that no OUT transfer has taken yet
    sched,   \* scheduled _process_rx runs that have not run yet
    frame,   \* the handler suspended in time.sleep_ms (pc = "idle": none)
    ev,      \* what the last engine step did (observation)
    hist,    \* stale bytes in rx and tx, storage changes, containers sent (observation)
    py       \* the interpreter importlib runs in: sys.path, sys.modules, caller's globals

vars == <<mtp, fs, ep_in, ep_out, wire, sched, frame, ev, hist, py>>

\* A dict of Python: a function on its set of keys.
DictSet(d, k, v) == [x \in (DOMAIN d) \cup {k} |-> IF x = k THEN v ELSE d[x]]
DictDel(d, k) == [x \in (DOMAIN d) \ {k} |-> d[x]]
EmptyDict == <<>>

\* MTPInterface.__init__
MtpInit == [
    open |-> FALSE,
    rx |-> <<>>,
    tx |-> <<>>,
    session_open |-> FALSE,
    session_id |-> 0,
    transaction_id |-> 0,
    next_object_handle |-> 1,
    object_handles |-> EmptyDict,
    parent_map |-> EmptyDict,
    current_operation |-> None,
    current_params |-> None,
    data_expected |-> FALSE,
    data_phase_complete |-> FALSE,
    send_object_handle |-> None,
    send_object_info |-> None,
    get_object_handle |-> None ]

\* No handler is suspended.
FrameIdle == [pc |-> "idle", filesize |-> 0, bytes_sent |-> 0, file |-> <<>>,
              tick |-> FALSE]

\* The observation of one engine step: the container it took (kind, code,
\* tid, params or payload), the code and parameters of the last
\* _send_response call (resp, resp_params), how many Response and Data
\* containers the step emitted into the TX buffer (n_resp, n_data), the
\* payload of the last _send_data call (data), the
\* data-phase handler it ran (phase), whether an exception escaped, whether
\* the step parsed bytes received before the last reset (stale_rx) or handed
\* bytes queued before the last reset to the host (stale_tx), whether the
\* container it parsed is not the one the host sent next (misparsed), and,
\* for a reset, the session and transaction state it found (before).
EvQuiet == [kind |-> "none", code |-> 0, tid |-> 0, params |-> <<>>,
            resp |-> None, resp_params |-> <<>>, n_resp |-> 0, n_data |-> 0,
            data |-> None,
            phase |-> None, raised |-> FALSE,
            stale_rx |-> FALSE, stale_tx |-> FALSE, misparsed |-> FALSE,
            before |-> None]

\* The state a handler works on.
World == [m |-> mtp, fs |-> fs, ep_in |-> ep_in, frame |-> frame, ev |-> EvQuiet]

\* ------------------------------------------------------------ sending
\* _tx_xfer that does not ask xfer_pending before it submits.
tx_xfer_unguarded(w) ==
    IF w.m.open /\ BufReadable(w.m.tx) > 0
    THEN [w EXCEPT !.ep_in = BufReadable(w.m.tx)]
    ELSE w

\* MTPInterface._tx_xfer: submit an IN transfer of everything readable.
tx_xfer(w) ==
    IF w.m.open /\ w.ep_in = 0 /\ BufReadable(w.m.tx) > 0
    THEN [w EXCEPT !.ep_in = BufReadable(w.m.tx)]
    ELSE w

\* MTPInterface._send_data
send_data(w, data) ==
    IF ~w.m.open THEN w
    ELSE LET container == ContainerHeader(_CONTAINER_HEADER_SIZE + Len(data),
                                          _MTP_CONTAINER_TYPE_DATA,
                                          w.m.current_operation[1],
                                          w.m.transaction_id)
             tx1 == BufWrite(w.m.tx, TxSize, container)
             tx2 == IF data # <<>> THEN BufWrite(tx1, TxSize, data) ELSE tx1
         IN tx_xfer([w EXCEPT !.m.tx = tx2, !.ev.n_data = @ + 1,
                              !.ev.data = Some(data)])

\* MTPInterface._send_response
send_response(w, response_code, params) ==
    IF ~w.m.open
    THEN [w EXCEPT !.ev.resp = Some(response_code), !.ev.resp_params = params]
    ELSE LET container == ContainerHeader(_CONTAINER_HEADER_SIZE + 4 * Len(params),
                                          _MTP_CONTAINER_TYPE_RESPONSE,
                                          response_code,
                                          w.m.transaction_id) \o U32Seq(params)
             w1 == tx_xfer([w EXCEPT !.m.tx = BufWrite(@, TxSize, container)])
         IN [w1 EXCEPT !.m.current_operation = None,
                       !.m.current_params = None,
                       !.m.data_expected = FALSE,
                       !.m.data_phase_complete = FALSE,
                       !.ev.resp = Some(response_code),
                       !.ev.resp_params = params,
                       !.ev.n_resp = @ + 1]

\* ------------------------------------------------------------ storage backend
\* The filesystem behind os.stat / os.listdir / open / os.remove / os.mkdir /
\* shutil.rmtree: path -> [dir, names (a directory's entries, in listing
\* order), data (a file's bytes)].
Slash == 47
storage_path == <<47>>                                   \* "/"

DirNode(names) == [dir |-> TRUE, names |-> names, data |-> <<>>]
FileNode(data) == [dir |-> FALSE, names |-> <<>>, data |-> data]

\* "/" {a.txt (5 bytes), sub/ {b.txt (3 bytes)}}
FsInit ==
    (<<47>> :> DirNode(<< <<97, 46, 116, 120, 116>>, <<115, 117, 98>> >>))
    @@ (<<47, 97, 46, 116, 120, 116>> :> FileNode(<<104, 101, 108, 108, 111>>))
    @@ (<<47, 115, 117, 98>> :> DirNode(<< <<98, 46, 116, 120, 116>> >>))
    @@ (<<47, 115, 117, 98, 47, 98, 46, 116, 120, 116>> :> FileNode(<<97, 98, 99>>))

\* A path without its trailing slash (the root keeps it).
NormPath(p) == IF Len(p) > 1 /\ p[Len(p)] = Slash THEN Take(p, Len(p) - 1) ELSE p
FsExists(f, p) == NormPath(p) \in DOMAIN f
FsIsDir(f, p) == f[NormPath(p)].dir

LastSlash(p) ==
    LET idx == {i \in 1..Len(p) : p[i] = Slash}
    IN IF idx = {} THEN 0 ELSE CHOOSE i \in idx : \A j \in idx : j <= i
ParentPath(p) == IF LastSlash(p) <= 1 THEN storage_path ELSE Take(p, LastSlash(p) - 1)
BaseName(p) == Drop(p, LastSlash(p))
IsUnder(p, d) ==
    LET prefix == IF d[Len(d)] = Slash THEN d ELSE d \o <<Slash>>
    IN Len(p) > Len(prefix) /\ Take(p, Len(prefix)) = prefix

RECURSIVE SeqRemove(_, _)
SeqRemove(s, x) ==
    IF s = <<>> THEN <<>>
    ELSE IF Head(s) = x THEN SeqRemove(Tail(s), x)
    ELSE <<Head(s)>> \o SeqRemove(Tail(s), x)

\* The entry p is gone from its parent's listing.
FsUnlink(f, p) ==
    LET q == ParentPath(p)
        g == [x \in (DOMAIN f) \ {p} |-> f[x]]
    IN IF q \in DOMAIN g /\ q # p
       THEN [g EXCEPT ![q].names = SeqRemove(@, BaseName(p))]
       ELSE g
\* shutil.rmtree(p): p and everything under it is gone.
FsRmTree(f, p) ==
    LET q == NormPath(p)
        g == FsUnlink(f, q)
    IN [x \in {y \in DOMAIN g : ~IsUnder(y, q)} |-> g[x]]
\* The entry p is created in (or kept in) its parent's listing.
FsLink(f, p, node) ==
    LET q == ParentPath(p)
        g == DictSet(f, p, node)
    IN IF p \in DOMAIN f THEN g
       ELSE [g EXCEPT ![q].names = Append(@, BaseName(p))]
\* open(p, "wb") succeeds: the parent is a directory and p is not one.
FsCanWrite(f, p) ==
    /\ p # <<>>
    /\ p[Len(p)] # Slash
    /\ ParentPath(p) \in DOMAIN f
    /\ f[ParentPath(p)].dir
    /\ (p \in DOMAIN f => ~f[p].dir)
\* os.mkdir(p) succeeds: the parent is a directory and p does not exist.
FsCanMkdir(f, p) ==
    /\ p # <<>>
    /\ ~FsExists(f, p)
    /\ ParentPath(NormPath(p)) \in DOMAIN f
    /\ f[ParentPath(NormPath(p))].dir

\* ------------------------------------------------------------ object catalog
\* str.lower() on ASCII
Lower(s) == [i \in 1..Len(s) |-> IF s[i] >= 65 /\ s[i] <= 90 THEN s[i] + 32 ELSE s[i]]

\* MTPInterface._get_format_by_path (the formats the model's files can have)
get_format_by_path(f, path) ==
    LET lower_path == Lower(path)
    IN IF path # <<>> /\ lower_path[Len(path)] = Slash THEN _MTP_FORMAT_ASSOCIATION
       ELSE IF FsExists(f, path) /\ FsIsDir(f, path) THEN _MTP_FORMAT_ASSOCIATION
       ELSE IF EndsWith(lower_path, <<46, 116, 120, 116>>) THEN _MTP_FORMAT_TEXT
       ELSE _MTP_FORMAT_UNDEFINED

\* MTPInterface._scan_directory, on the catalog c = [oh, pm, next]: depth-first,
\* one handle per entry in listing order; an entry whose stat fails is skipped.
RECURSIVE scan_directory(_, _, _, _), scan_entries(_, _, _, _, _)
scan_directory(f, c, path, parent_handle) ==
    LET p == IF path[Len(path)] # Slash THEN path \o <<Slash>> ELSE path
    IN IF ~FsExists(f, p) \/ ~FsIsDir(f, p) THEN c
       ELSE scan_entries(f, c, p, f[NormPath(p)].names, parent_handle)
scan_entries(f, c, p, entries, parent_handle) ==
    IF entries = <<>> THEN c
    ELSE LET full_path == p \o Head(entries)
         IN IF ~FsExists(f, full_path)
            THEN scan_entries(f, c, p, Tail(entries), parent_handle)
            ELSE LET handle == c.next
                     c1 == [oh |-> DictSet(c.oh, handle, full_path),
                            pm |-> DictSet(c.pm, handle, parent_handle),
                            next |-> c.next + 1]
                     c2 == IF FsIsDir(f, full_path)
                           THEN scan_directory(f, c1, full_path, handle)
                           ELSE c1
                 IN scan_entries(f, c2, p, Tail(entries), parent_handle)

\* _refresh_object_list without lines 1312-1316: the scan starts at handle 1
\* and the root directory gets no entry.
refresh_object_list_rootless(w) ==
    LET c0 == [oh |-> EmptyDict, pm |-> EmptyDict, next |-> 1]
        c == scan_directory(w.fs, c0, storage_path, 0)
    IN [w EXCEPT !.m.object_handles = c.oh,
                 !.m.parent_map = c.pm,
                 !.m.next_object_handle = c.next]

\* _refresh_object_list without lines 1307-1308: the scan writes its entries
\* over the dictionaries of the earlier session.
refresh_object_list_merging(w) ==
    LET root_handle == 1
        c0 == [oh |-> DictSet(w.m.object_handles, root_handle, storage_path),
               pm |-> DictSet(w.m.parent_map, root_handle, 0),
               next |-> 2]
        c == scan_directory(w.fs, c0, storage_path, root_handle)
    IN [w EXCEPT !.m.object_handles = c.oh,
                 !.m.parent_map = c.pm,
                 !.m.next_object_handle = c.next]

\* MTPInterface._refresh_object_list
refresh_object_list(w) ==
    LET root_handle == 1
        c0 == [oh |-> DictSet(EmptyDict, root_handle, storage_path),
               pm |-> DictSet(EmptyDict, root_handle, 0),
               next |-> 2]
        c == scan_directory(w.fs, c0, storage_path, root_handle)
    IN [w EXCEPT !.m.object_handles = c.oh,
                 !.m.parent_map = c.pm,
                 !.m.next_object_handle = c.next]

\* ------------------------------------------------------------ datasets
RECURSIVE Utf16(_)
Utf16(string) == IF string = <<>> THEN <<>> ELSE U16(Head(string)) \o Utf16(Tail(string))

\* MTPInterface._write_mtp_string: the bytes written for `string`
write_mtp_string(string) ==
    IF string = <<>> THEN <<0>>
    ELSE <<(Len(string) + 1) % 256>> \o Utf16(string) \o U16(0)

RECURSIVE U16Seq(_)
U16Seq(ps) == IF ps = <<>> THEN <<>> ELSE U16(Head(ps)) \o U16Seq(Tail(ps))

\* The keys of a dict in ascending order (the order the model iterates in).
RECURSIVE SortedSeq(_)
SortedSeq(S) ==
    IF S = {} THEN <<>>
    ELSE LET lo == CHOOSE x \in S : \A y \in S : x <= y
         IN <<lo>> \o SortedSeq(S \ {lo})

\* The DeviceInfo dataset of _cmd_get_device_info
DeviceInfoDataset ==
    U16(100) \o U32(6) \o U16(100)
    \o write_mtp_string(<<109, 105, 99, 114, 111, 115, 111, 102, 116, 46, 99,
                          111, 109, 58, 32, 49, 46, 48>>)
    \o U16(0)
    \o U32(12)
    \o U16Seq(<<_MTP_OPERATION_GET_DEVICE_INFO, _MTP_OPERATION_OPEN_SESSION,
                _MTP_OPERATION_CLOSE_SESSION, _MTP_OPERATION_GET_STORAGE_IDS,
                _MTP_OPERATION_GET_STORAGE_INFO, _MTP_OPERATION_GET_NUM_OBJECTS,
                _MTP_OPERATION_GET_OBJECT_HANDLES, _MTP_OPERATION_GET_OBJECT_INFO,
                _MTP_OPERATION_GET_OBJECT, _MTP_OPERATION_DELETE_OBJECT,
                _MTP_OPERATION_SEND_OBJECT_INFO, _MTP_OPERATION_SEND_OBJECT>>)
    \o U32(0) \o U32(0) \o U32(0)
    \o U32(3)
    \o U16Seq(<<_MTP_FORMAT_ASSOCIATION, _MTP_FORMAT_TEXT, _MTP_FORMAT_UNDEFINED>>)
    \o write_mtp_string(<<77, 105, 99, 114, 111, 80, 121, 116, 104, 111, 110>>)
    \o write_mtp_string(<<77, 105, 99, 114, 111, 80, 121, 116, 104, 111, 110, 32,
                          77, 84, 80, 32, 68, 101, 118, 105, 99, 101>>)
    \o write_mtp_string(<<49, 46, 48>>)
    \o write_mtp_string(<<77, 80, 49, 50, 51, 52, 53>>)

\* The StorageInfo dataset of _cmd_get_storage_info (capacities: the defaults
\* of lines 715-716, 4 MB total and 1 MB free)
StorageInfoDataset ==
    U16(6) \o U16(2) \o U16(0)
    \o U32(4194304) \o U32(0)
    \o U32(1048576) \o U32(0)
    \o U32(_WILDCARD)
    \o write_mtp_string(<<77, 105, 99, 114, 111, 80, 121, 116, 104, 111, 110, 32,
                          70, 108, 97, 115, 104, 32, 83, 116, 111, 114, 97, 103, 101>>)
    \o write_mtp_string(<<77, 105, 99, 114, 111, 80, 121, 116, 104, 111, 110, 32,
                          83, 116, 111, 114, 97, 103, 101>>)

\* MTPInterface._format_timestamp of the backend's timestamps (all at the
\* epoch): "20000101T000000"
format_timestamp == <<50, 48, 48, 48, 48, 49, 48, 49, 84, 48, 48, 48, 48, 48, 48>>

\* parts[-1] if parts[-1] else parts[-2] of filepath.split('/')
FileName(filepath) ==
    IF BaseName(filepath) # <<>> THEN BaseName(filepath)
    ELSE BaseName(Take(filepath, Len(filepath) - 1))

\* The ObjectInfo dataset of _cmd_get_object_info (lines 851-921)
ObjectInfoDataset(format_code, filesize, parent_handle, is_dir, filename) ==
    U32(_MTP_STORAGE_ID) \o U16(format_code) \o U16(0)
    \o U32(filesize)
    \o U16(0) \o U32(0)
    \o U32(0) \o U32(0)
    \o U32(0) \o U32(0)
    \o U32(0)
    \o U32(parent_handle)
    \o U16(IF is_dir THEN 1 ELSE 0)
    \o U32(0)
    \o U32(0)
    \o write_mtp_string(filename)
    \o write_mtp_string(format_timestamp)
    \o write_mtp_string(format_timestamp)
    \o write_mtp_string(<<>>)

\* ------------------------------------------------------------ handlers
\* An exception escapes the handler (and the scheduled _process_rx run).
Raise(w) == [w EXCEPT !.ev.raised = TRUE]

\* MTPInterface._cmd_get_device_info
cmd_get_device_info(w) ==
    send_response(send_data(w, DeviceInfoDataset), _MTP_RESPONSE_OK, <<>>)

\* _cmd_open_session without the check of lines 656-658: it opens again.
cmd_open_session_reopen(w, params) ==
    IF params = <<>> THEN send_response(w, _MTP_RESPONSE_INVALID_PARAMETER, <<>>)
    ELSE IF params[1] = 0 THEN send_response(w, _MTP_RESPONSE_INVALID_PARAMETER, <<>>)
    ELSE send_response(
            refresh_object_list([w EXCEPT !.m.session_open = TRUE,
                                          !.m.session_id = params[1]]),
            _MTP_RESPONSE_OK, <<>>)

\* MTPInterface._cmd_open_session
cmd_open_session(w, params) ==
    IF params = <<>> THEN send_response(w, _MTP_RESPONSE_INVALID_PARAMETER, <<>>)
    ELSE LET session_id == params[1]
         IN IF session_id = 0
            THEN send_response(w, _MTP_RESPONSE_INVALID_PARAMETER, <<>>)
            ELSE IF w.m.session_open
            THEN send_response(w, _MTP_RESPONSE_SESSION_ALREADY_OPEN, <<>>)
            ELSE send_response(
                    refresh_object_list([w EXCEPT !.m.session_open = TRUE,
                                                  !.m.session_id = session_id]),
                    _MTP_RESPONSE_OK, <<>>)

\* _cmd_close_session that clears the flag and keeps the session id.
cmd_close_session_keeping_id(w) ==
    send_response([w EXCEPT !.m.session_open = FALSE], _MTP_RESPONSE_OK, <<>>)

\* MTPInterface._cmd_close_session
cmd_close_session(w) ==
    send_response([w EXCEPT !.m.session_open = FALSE, !.m.session_id = 0],
                  _MTP_RESPONSE_OK, <<>>)

\* MTPInterface._cmd_get_storage_ids
cmd_get_storage_ids(w) ==
    send_response(send_data(w, U32(1) \o U32(_MTP_STORAGE_ID)), _MTP_RESPONSE_OK, <<>>)

\* MTPInterface._cmd_get_storage_info
cmd_get_storage_info(w, params) ==
    IF params = <<>> \/ params[1] # _MTP_STORAGE_ID
    THEN send_response(w, _MTP_RESPONSE_INVALID_STORAGE_ID, <<>>)
    ELSE send_response(send_data(w, StorageInfoDataset), _MTP_RESPONSE_OK, <<>>)

\* params[i] if len(params) > i else 0   (i is 0-based)
ParamOr0(params, i) == IF Len(params) > i THEN params[i + 1] ELSE 0

\* The handles GetNumObjects counts (lines 758-764), in iteration order
NumObjectsMatches(w, format_code, parent_handle) ==
    SelectSeq(SortedSeq(DOMAIN w.m.parent_map),
        LAMBDA handle :
            /\ (parent_handle = 0 \/ w.m.parent_map[handle] = parent_handle)
            /\ handle \in DOMAIN w.m.object_handles
            /\ (format_code = 0
                \/ get_format_by_path(w.fs, w.m.object_handles[handle]) = format_code))

\* MTPInterface._cmd_get_num_objects
cmd_get_num_objects(w, params) ==
    IF params = <<>> THEN send_response(w, _MTP_RESPONSE_INVALID_PARAMETER, <<>>)
    ELSE LET storage_id == params[1]
             format_code == ParamOr0(params, 1)
             parent_handle == ParamOr0(params, 2)
         IN IF storage_id # _WILDCARD /\ storage_id # _MTP_STORAGE_ID
            THEN send_response(w, _MTP_RESPONSE_INVALID_STORAGE_ID, <<>>)
            ELSE send_response(w, _MTP_RESPONSE_OK,
                    <<Len(NumObjectsMatches(w, format_code, parent_handle))>>)

\* The loop of lines 790-794 without the comparison with the parent.
ObjectHandlesAnyParent(w, format_code, parent_handle) ==
    SelectSeq(SortedSeq(DOMAIN w.m.parent_map),
        LAMBDA handle :
            /\ handle \in DOMAIN w.m.object_handles
            /\ (format_code = 0
                \/ get_format_by_path(w.fs, w.m.object_handles[handle]) = format_code))

\* The handles GetObjectHandles collects (lines 784-794), in iteration order
ObjectHandlesMatches(w, format_code, parent_handle) ==
    SelectSeq(SortedSeq(DOMAIN w.m.parent_map),
        LAMBDA handle :
            /\ (parent_handle \in {0, _WILDCARD} \/ w.m.parent_map[handle] = parent_handle)
            /\ handle \in DOMAIN w.m.object_handles
            /\ (format_code = 0
                \/ get_format_by_path(w.fs, w.m.object_handles[handle]) = format_code))

\* MTPInterface._cmd_get_object_handles
cmd_get_object_handles(w, params) ==
    IF params = <<>> THEN send_response(w, _MTP_RESPONSE_INVALID_PARAMETER, <<>>)
    ELSE LET storage_id == params[1]
             format_code == ParamOr0(params, 1)
             parent_handle == ParamOr0(params, 2)
             handles == ObjectHandlesMatches(w, format_code, parent_handle)
         IN IF storage_id # _WILDCARD /\ storage_id # _MTP_STORAGE_ID
            THEN send_response(w, _MTP_RESPONSE_INVALID_STORAGE_ID, <<>>)
            ELSE send_response(send_data(w, U32(Len(handles)) \o U32Seq(handles)),
                               _MTP_RESPONSE_OK, <<>>)

\* MTPInterface._cmd_get_object_info
cmd_get_object_info(w, params, io) ==
    IF params = <<>> THEN send_response(w, _MTP_RESPONSE_INVALID_PARAMETER, <<>>)
    ELSE LET object_handle == params[1]
         IN IF object_handle \notin DOMAIN w.m.object_handles
            THEN send_response(w, _MTP_RESPONSE_INVALID_OBJECT_HANDLE, <<>>)
            ELSE LET filepath == w.m.object_handles[object_handle]
                     parent_handle == IF object_handle \in DOMAIN w.m.parent_map
                                      THEN w.m.parent_map[object_handle] ELSE 0
                 IN IF io.fail \/ ~FsExists(w.fs, filepath)
                    THEN send_response(w, _MTP_RESPONSE_INVALID_OBJECT_HANDLE, <<>>)
                    ELSE LET is_dir == FsIsDir(w.fs, filepath)
                             filesize == Len(w.fs[NormPath(filepath)].data)
                             format_code == IF is_dir THEN _MTP_FORMAT_ASSOCIATION
                                            ELSE get_format_by_path(w.fs, filepath)
                         IN send_response(
                                send_data(w, ObjectInfoDataset(format_code, filesize,
                                               parent_handle, is_dir, FileName(filepath))),
                                _MTP_RESPONSE_OK, <<>>)

\* MTPInterface._cmd_get_object, lines 982-1024: the transfer loop, run from
\* its current position up to the next time.sleep_ms (the handler is then
\* suspended with frame.pc = "wait" or "drain") or up to its return.
RECURSIVE get_object_loop(_)
get_object_drain(w) ==
    IF BufReadable(w.m.tx) > 0
    THEN [tx_xfer(w) EXCEPT !.frame.pc = "drain"]
    ELSE send_response([w EXCEPT !.frame = FrameIdle], _MTP_RESPONSE_OK, <<>>)
get_object_loop(w) ==
    IF w.frame.bytes_sent < w.frame.filesize
    THEN IF BufWritable(w.m.tx, TxSize) <= 0
         THEN IF ~w.m.open
              THEN [w EXCEPT !.frame = FrameIdle]
              ELSE [w EXCEPT !.frame.pc = "wait"]
         ELSE LET remaining == w.frame.filesize - w.frame.bytes_sent
                  current_chunk_size == Min(Min(_MAX_PACKET_SIZE, remaining),
                                            BufWritable(w.m.tx, TxSize))
                  chunk == Slice(w.frame.file, w.frame.bytes_sent,
                                 w.frame.bytes_sent + current_chunk_size)
              IN IF chunk = <<>> THEN get_object_drain(w)
                 ELSE get_object_loop(tx_xfer(
                        [w EXCEPT !.m.tx = BufWrite(@, TxSize, chunk),
                                  !.frame.bytes_sent = @ + Len(chunk)]))
    ELSE get_object_drain(w)

\* MTPInterface._cmd_get_object, lines 926-981: up to the transfer loop
cmd_get_object(w, params, io) ==
    IF params = <<>> THEN send_response(w, _MTP_RESPONSE_INVALID_PARAMETER, <<>>)
    ELSE LET object_handle == params[1]
         IN IF object_handle \notin DOMAIN w.m.object_handles
            THEN send_response(w, _MTP_RESPONSE_INVALID_OBJECT_HANDLE, <<>>)
            ELSE LET filepath == w.m.object_handles[object_handle]
                 IN IF io.fail \/ ~FsExists(w.fs, filepath)
                    THEN send_response(w, _MTP_RESPONSE_GENERAL_ERROR, <<>>)
                    ELSE IF FsIsDir(w.fs, filepath)
                    THEN send_response(w, _MTP_RESPONSE_INVALID_OBJECT_HANDLE, <<>>)
                    ELSE LET stored == w.fs[NormPath(filepath)].data
                             filesize == Len(stored)
                             data == IF io.short THEN Take(stored, Len(stored) - 1)
                                     ELSE stored
                             container == ContainerHeader(
                                             _CONTAINER_HEADER_SIZE + filesize,
                                             _MTP_CONTAINER_TYPE_DATA,
                                             w.m.current_operation[1],
                                             w.m.transaction_id)
                         IN get_object_loop(
                              [w EXCEPT !.m.tx = BufWrite(@, TxSize, container),
                                        !.ev.n_data = @ + 1,
                                        !.frame = [pc |-> "run",
                                                   filesize |-> filesize,
                                                   bytes_sent |-> 0,
                                                   file |-> data,
                                                   tick |-> FALSE]])

\* _cmd_delete_object that does not look the handle up in the catalog first.
cmd_delete_object_unchecked(w, params, io) ==
    IF params = <<>> THEN send_response(w, _MTP_RESPONSE_INVALID_PARAMETER, <<>>)
    ELSE IF params[1] \notin DOMAIN w.m.object_handles
         \/ io.fail \/ ~FsExists(w.fs, w.m.object_handles[params[1]])
    THEN send_response(w, _MTP_RESPONSE_GENERAL_ERROR, <<>>)
    ELSE LET filepath == w.m.object_handles[params[1]]
             fs1 == IF FsIsDir(w.fs, filepath)
                    THEN FsRmTree(w.fs, filepath)
                    ELSE FsUnlink(w.fs, NormPath(filepath))
         IN send_response(
              [w EXCEPT !.fs = fs1,
                        !.m.object_handles = DictDel(@, params[1]),
                        !.m.parent_map = DictDel(@, params[1])],
              _MTP_RESPONSE_OK, <<>>)

\* MTPInterface._cmd_delete_object
cmd_delete_object(w, params, io) ==
    IF params = <<>> THEN send_response(w, _MTP_RESPONSE_INVALID_PARAMETER, <<>>)
    ELSE LET object_handle == params[1]
         IN IF object_handle \notin DOMAIN w.m.object_handles
            THEN send_response(w, _MTP_RESPONSE_INVALID_OBJECT_HANDLE, <<>>)
            ELSE LET filepath == w.m.object_handles[object_handle]
                 IN IF io.fail \/ ~FsExists(w.fs, filepath)
                    THEN send_response(w, _MTP_RESPONSE_GENERAL_ERROR, <<>>)
                    ELSE LET fs1 == IF FsIsDir(w.fs, filepath)
                                    THEN FsRmTree(w.fs, filepath)
                                    ELSE FsUnlink(w.fs, NormPath(filepath))
                         IN send_response(
                              [w EXCEPT !.fs = fs1,
                                        !.m.object_handles = DictDel(@, object_handle),
                                        !.m.parent_map = DictDel(@, object_handle)],
                              _MTP_RESPONSE_OK, <<>>)

\* MTPInterface._cmd_send_object_info
cmd_send_object_info(w, params) ==
    IF Len(params) < 2 THEN send_response(w, _MTP_RESPONSE_INVALID_PARAMETER, <<>>)
    ELSE LET storage_id == params[1]
             parent_handle == params[2]
         IN IF storage_id # _MTP_STORAGE_ID
            THEN send_response(w, _MTP_RESPONSE_INVALID_STORAGE_ID, <<>>)
            ELSE IF parent_handle # 0 /\ parent_handle \notin DOMAIN w.m.object_handles
            THEN send_response(w, _MTP_RESPONSE_INVALID_PARENT_OBJECT, <<>>)
            ELSE [w EXCEPT !.m.data_expected = TRUE]

\* Lines 1109-1115: the filename loop over i = from .. filename_len - 2;
\* [ok |-> FALSE] when struct.unpack_from reads past the end of data.
RECURSIVE DecodeFilename(_, _, _, _)
DecodeFilename(data, filename_offset, i, count) ==
    IF i >= count THEN [ok |-> TRUE, name |-> <<>>]
    ELSE IF filename_offset + i * 2 + 2 > Len(data) THEN [ok |-> FALSE, name |-> <<>>]
    ELSE LET c == LE16(data, filename_offset + i * 2)
         IN IF c = 0 THEN [ok |-> TRUE, name |-> <<>>]
            ELSE LET rest == DecodeFilename(data, filename_offset, i + 1, count)
                 IN [ok |-> rest.ok, name |-> <<c>> \o rest.name]

\* Lines 1106-1115: the string decoder of the SendObjectInfo data phase, on
\* the string that starts at `at`: a u16 length, then the code units.
decode_filename(data, at) ==
    IF at + 2 > Len(data) THEN [ok |-> FALSE, name |-> <<>>]
    ELSE LET filename_len == LE16(data, at)
             filename_offset == at + 2
         IN DecodeFilename(data, filename_offset, 0, filename_len - 1)

\* MTPInterface._process_send_object_info
process_send_object_info(w, data) ==
    IF Len(data) < 32 THEN send_response(w, _MTP_RESPONSE_GENERAL_ERROR, <<>>)
    ELSE LET storage_id == LE32(data, 0)
             obj_format == LE16(data, 4)
             parent_handle == LE32(data, 28)
             offset == 52
             seq_num_offset == offset + 4
         IN LET dec == decode_filename(data, seq_num_offset + 4)
            IN IF ~dec.ok THEN Raise(w)
                    ELSE LET p0 == IF parent_handle = 0 THEN storage_path
                                   ELSE IF parent_handle \in DOMAIN w.m.object_handles
                                   THEN w.m.object_handles[parent_handle]
                                   ELSE storage_path
                             parent_path == IF p0[Len(p0)] # Slash
                                            THEN p0 \o <<Slash>> ELSE p0
                             target_path == parent_path \o dec.name
                             new_handle == w.m.next_object_handle
                         IN send_response(
                              [w EXCEPT !.m.next_object_handle = @ + 1,
                                        !.m.send_object_info =
                                            Some([handle |-> new_handle,
                                                  path |-> target_path,
                                                  format |-> obj_format,
                                                  storage_id |-> storage_id,
                                                  parent |-> parent_handle])],
                              _MTP_RESPONSE_OK,
                              <<storage_id, parent_handle, new_handle>>)

\* MTPInterface._cmd_send_object
cmd_send_object(w) ==
    IF w.m.send_object_info = None
    THEN send_response(w, _MTP_RESPONSE_GENERAL_ERROR, <<>>)
    ELSE [w EXCEPT !.m.data_expected = TRUE]

\* _process_send_object without the finally clause of lines 1188-1190: the
\* pending SendObjectInfo result stays.
process_send_object_keeping(w, data, io) ==
    IF w.m.send_object_info = None
    THEN send_response(w, _MTP_RESPONSE_GENERAL_ERROR, <<>>)
    ELSE LET info == w.m.send_object_info[1]
             ok == ~io.fail /\ FsCanWrite(w.fs, info.path)
         IN IF ok
            THEN send_response(
                   [w EXCEPT !.fs = FsLink(w.fs, info.path, FileNode(data)),
                             !.m.object_handles = DictSet(@, info.handle, info.path),
                             !.m.parent_map = DictSet(@, info.handle, info.parent)],
                   _MTP_RESPONSE_OK, <<>>)
            ELSE send_response(w, _MTP_RESPONSE_GENERAL_ERROR, <<>>)

\* MTPInterface._process_send_object
process_send_object(w, data, io) ==
    IF w.m.send_object_info = None
    THEN send_response(w, _MTP_RESPONSE_GENERAL_ERROR, <<>>)
    ELSE LET info == w.m.send_object_info[1]
             target_path == info.path
             new_handle == info.handle
             is_assoc == info.format = _MTP_FORMAT_ASSOCIATION
             ok == /\ ~io.fail
                   /\ IF is_assoc
                      THEN FsExists(w.fs, target_path) \/ FsCanMkdir(w.fs, target_path)
                      ELSE FsCanWrite(w.fs, target_path)
             fs1 == IF is_assoc
                    THEN IF FsExists(w.fs, target_path) THEN w.fs
                         ELSE FsLink(w.fs, NormPath(target_path), DirNode(<<>>))
                    ELSE FsLink(w.fs, target_path, FileNode(data))
             w1 == IF ok
                   THEN send_response(
                          [w EXCEPT !.fs = fs1,
                                    !.m.object_handles = DictSet(@, new_handle, target_path),
                                    !.m.parent_map = DictSet(@, new_handle, info.parent)],
                          _MTP_RESPONSE_OK, <<>>)
                   ELSE send_response(w, _MTP_RESPONSE_GENERAL_ERROR, <<>>)
         IN [w1 EXCEPT !.m.send_object_info = None]

\* ------------------------------------------------------------ dispatch
\* _handle_command whose final else branch answers OK.
dispatch_accepting(w, io) ==
    LET op == w.m.current_operation[1]
        params == w.m.current_params[1]
    IN      CASE op = _MTP_OPERATION_GET_DEVICE_INFO -> cmd_get_device_info(w)
              [] op = _MTP_OPERATION_OPEN_SESSION -> cmd_open_session(w, params)
              [] op = _MTP_OPERATION_CLOSE_SESSION -> cmd_close_session(w)
              [] op = _MTP_OPERATION_GET_STORAGE_IDS -> cmd_get_storage_ids(w)
              [] op = _MTP_OPERATION_GET_STORAGE_INFO -> cmd_get_storage_info(w, params)
              [] op = _MTP_OPERATION_GET_NUM_OBJECTS -> cmd_get_num_objects(w, params)
              [] op = _MTP_OPERATION_GET_OBJECT_HANDLES -> cmd_get_object_handles(w, params)
              [] op = _MTP_OPERATION_GET_OBJECT_INFO -> cmd_get_object_info(w, params, io)
              [] op = _MTP_OPERATION_GET_OBJECT -> cmd_get_object(w, params, io)
              [] op = _MTP_OPERATION_DELETE_OBJECT -> cmd_delete_object(w, params, io)
              [] op = _MTP_OPERATION_SEND_OBJECT_INFO -> cmd_send_object_info(w, params)
              [] op = _MTP_OPERATION_SEND_OBJECT -> cmd_send_object(w)
              [] OTHER -> send_response(w, _MTP_RESPONSE_OK, <<>>)

\* MTPInterface._handle_command, lines 487-515: the handler of the operation
dispatch(w, io) ==
    LET op == w.m.current_operation[1]
        params == w.m.current_params[1]
    IN      CASE op = _MTP_OPERATION_GET_DEVICE_INFO -> cmd_get_device_info(w)
              [] op = _MTP_OPERATION_OPEN_SESSION -> cmd_open_session(w, params)
              [] op = _MTP_OPERATION_CLOSE_SESSION -> cmd_close_session(w)
              [] op = _MTP_OPERATION_GET_STORAGE_IDS -> cmd_get_storage_ids(w)
              [] op = _MTP_OPERATION_GET_STORAGE_INFO -> cmd_get_storage_info(w, params)
              [] op = _MTP_OPERATION_GET_NUM_OBJECTS -> cmd_get_num_objects(w, params)
              [] op = _MTP_OPERATION_GET_OBJECT_HANDLES -> cmd_get_object_handles(w, params)
              [] op = _MTP_OPERATION_GET_OBJECT_INFO -> cmd_get_object_info(w, params, io)
              [] op = _MTP_OPERATION_GET_OBJECT -> cmd_get_object(w, params, io)
              [] op = _MTP_OPERATION_DELETE_OBJECT -> cmd_delete_object(w, params, io)
              [] op = _MTP_OPERATION_SEND_OBJECT_INFO -> cmd_send_object_info(w, params)
              [] op = _MTP_OPERATION_SEND_OBJECT -> cmd_send_object(w)
              [] OTHER -> send_response(w, _MTP_RESPONSE_OPERATION_NOT_SUPPORTED, <<>>)

\* _handle_command without the session gate of lines 463-467.
handle_command_ungated(w, io) == dispatch(w, io)

\* _handle_command whose session gate answers OK.
handle_command_gate_ok(w, io) ==
    LET op == w.m.current_operation[1]
    IN IF ~w.m.session_open /\ op # _MTP_OPERATION_OPEN_SESSION
                            /\ op # _MTP_OPERATION_GET_DEVICE_INFO
       THEN send_response(w, _MTP_RESPONSE_OK, <<>>)
       ELSE dispatch(w, io)

\* MTPInterface._handle_command
handle_command(w, io) ==
    LET op == w.m.current_operation[1]
    IN IF ~w.m.session_open /\ op # _MTP_OPERATION_OPEN_SESSION
                            /\ op # _MTP_OPERATION_GET_DEVICE_INFO
       THEN send_response(w, _MTP_RESPONSE_SESSION_NOT_OPEN, <<>>)
       ELSE dispatch(w, io)

\* MTPInterface._process_data_phase
process_data_phase(w, data, io) ==
    LET op == w.m.current_operation[1]
        w1 == [w EXCEPT !.m.data_phase_complete = TRUE,
                        !.ev.phase = Some(op)]
    IN IF op = _MTP_OPERATION_SEND_OBJECT_INFO THEN process_send_object_info(w1, data)
       ELSE IF op = _MTP_OPERATION_SEND_OBJECT THEN process_send_object(w1, data, io)
       ELSE send_response(w1, _MTP_RESPONSE_GENERAL_ERROR, <<>>)

\* Lines 384-391: the parameters of a Command container, read off the front
\* of the RX buffer one by one; [params, rx].
RECURSIVE ReadParams(_, _)
ReadParams(rx, n) ==
    IF n <= 0 \/ BufReadable(rx) < 4 THEN [params |-> <<>>, rx |-> rx]
    ELSE LET rest == ReadParams(BufFinishRead(rx, 4), n - 1)
         IN [params |-> <<LE32(rx, 0)>> \o rest.params, rx |-> rest.rx]

\* `not self._current_operation`: None, or the operation code 0
NoCurrentOperation(m) == m.current_operation = None \/ m.current_operation = Some(0)

\* _process_rx returning at line 347 or 376 having consumed the buffered bytes.
wait_for_more_consuming(w) ==
    [w EXCEPT !.m.rx = BufFinishRead(@, Min(BufReadable(@), _CONTAINER_HEADER_SIZE)),
              !.ev.kind = "poll"]

\* MTPInterface._process_rx, lines 345-347 and 374-376: the container is not
\* complete yet; return and wait for more bytes.
wait_for_more(w) == [w EXCEPT !.ev.kind = "poll"]

\* MTPInterface._process_rx: one scheduled run.
process_rx(w, io) ==
    LET rx == w.m.rx
    IN IF BufReadable(rx) < _CONTAINER_HEADER_SIZE
       THEN wait_for_more(w)
       ELSE
       LET length == HdrLength(rx)
           container_type == HdrType(rx)
           code == HdrCode(rx)
           transaction_id == HdrTransactionId(rx)
       IN IF U32Less(BufReadable(rx), length)
          THEN wait_for_more(w)
          ELSE
          LET rx1 == BufFinishRead(rx, _CONTAINER_HEADER_SIZE)
              w1 == [w EXCEPT !.m.rx = rx1, !.ev.code = code, !.ev.tid = transaction_id]
          IN IF container_type = _MTP_CONTAINER_TYPE_COMMAND
             THEN LET param_count == (length - _CONTAINER_HEADER_SIZE) \div 4
                      rd == ReadParams(rx1, Min(param_count, 5))
                  IN handle_command(
                       [w1 EXCEPT !.m.rx = rd.rx,
                                  !.m.current_operation = Some(code),
                                  !.m.current_params = Some(rd.params),
                                  !.m.transaction_id = transaction_id,
                                  !.m.data_expected = FALSE,
                                  !.m.data_phase_complete = FALSE,
                                  !.ev.kind = "cmd",
                                  !.ev.params = rd.params], io)
             ELSE IF container_type = _MTP_CONTAINER_TYPE_DATA
             THEN IF NoCurrentOperation(w.m) \/ w.m.data_phase_complete
                  THEN send_response([w1 EXCEPT !.ev.kind = "data"],
                                     _MTP_RESPONSE_GENERAL_ERROR, <<>>)
                  ELSE LET data_size == length - _CONTAINER_HEADER_SIZE
                       IN IF BufReadable(rx1) >= data_size
                          THEN IF data_size < 0
                               THEN Raise([w1 EXCEPT !.ev.kind = "data"])
                               ELSE process_data_phase(
                                      [w1 EXCEPT !.m.rx = BufFinishRead(rx1, data_size),
                                                 !.ev.kind = "data",
                                                 !.ev.params = Take(rx1, data_size)],
                                      Take(rx1, data_size), io)
                          ELSE send_response(
                                 [w1 EXCEPT !.m.rx = BufFinishRead(rx1, BufReadable(rx1)),
                                            !.ev.kind = "data"],
                                 _MTP_RESPONSE_INCOMPLETE_TRANSFER, <<>>)
             ELSE [w1 EXCEPT !.ev.kind = "other"]

\* ------------------------------------------------------------ host
\* What the host sends: Command and Data containers as bytes on the wire.
CommandContainer(code, tid, params) ==
    ContainerHeader(_CONTAINER_HEADER_SIZE + 4 * Len(params),
                    _MTP_CONTAINER_TYPE_COMMAND, code, tid) \o U32Seq(params)
DataContainer(code, tid, payload) ==
    ContainerHeader(_CONTAINER_HEADER_SIZE + Len(payload),
                    _MTP_CONTAINER_TYPE_DATA, code, tid) \o payload

Zeros(n) == [i \in 1..n |-> 0]
\* An ObjectInfo dataset as _process_send_object_info reads it: storage id at
\* byte 0, format at 4, parent at 28, a u16 filename length at 60, the
\* filename's UTF-16 code units from 62; cut to total bytes.
SendInfoPayload(format, parent, name, total) ==
    Take(U32(_MTP_STORAGE_ID) \o U16(format) \o Zeros(22) \o U32(parent)
         \o Zeros(28) \o U16(Len(name) + 1) \o Utf16(name) \o U16(0), total)

\* Transaction ids the host uses.
Tids == {1, 2}
\* Highest object handle SendObjectInfo may allocate in the model.
MaxHandle == 5
\* Most changes to the storage in one run.
MaxWrites == 1

CommandsAt(code, tids, paramsets) ==
    {CommandContainer(code, t, p) : t \in tids, p \in paramsets}
Commands(code, paramsets) == CommandsAt(code, Tids, paramsets)

\* Every operation code of the dispatcher and an unsupported one; for
\* OpenSession the parameter values that reach each branch of its handler.
\* The operations that change the session, the transaction or the storage
\* come with both transaction ids, the queries with one.
CommandMenu ==
    CommandsAt(_MTP_OPERATION_GET_DEVICE_INFO, {1}, {<<>>})
    \cup Commands(_MTP_OPERATION_OPEN_SESSION, {<<>>, <<0>>, <<1>>, <<2>>})
    \cup Commands(_MTP_OPERATION_CLOSE_SESSION, {<<>>})
    \cup CommandsAt(_MTP_OPERATION_GET_STORAGE_IDS, {2}, {<<>>})
    \cup CommandsAt(_MTP_OPERATION_GET_STORAGE_INFO, {1}, {<<_MTP_STORAGE_ID>>})
    \cup CommandsAt(_MTP_OPERATION_GET_NUM_OBJECTS, {2}, {<<_MTP_STORAGE_ID, 0, 1>>})
    \cup CommandsAt(_MTP_OPERATION_GET_OBJECT_HANDLES, {1}, {<<_WILDCARD, 0, _WILDCARD>>})
    \cup CommandsAt(_MTP_OPERATION_GET_OBJECT_INFO, {2}, {<<2>>})
    \cup Commands(_MTP_OPERATION_GET_OBJECT, {<<2>>})
    \cup Commands(_MTP_OPERATION_DELETE_OBJECT, {<<2>>})
    \cup Commands(_MTP_OPERATION_SEND_OBJECT_INFO, {<<_MTP_STORAGE_ID, 0>>})
    \cup Commands(_MTP_OPERATION_SEND_OBJECT, {<<>>})
    \cup CommandsAt(_MTP_OPERATION_GET_PARTIAL_OBJECT, {1}, {<<2, 0, 1>>})

\* Data containers: a payload shorter than the 32-byte minimum, one that ends
\* before the filename length field, and a complete ObjectInfo dataset naming
\* the file "c".
DataMenu ==
    {DataContainer(_MTP_OPERATION_SEND_OBJECT_INFO, 1, payload) :
        payload \in {<<1, 2, 3>>,
                     SendInfoPayload(_MTP_FORMAT_TEXT, 0, <<99>>, 40),
                     SendInfoPayload(_MTP_FORMAT_TEXT, 0, <<99>>, 66)}}

\* The containers of the reset, stream and flow-control specifications.
ResetMenu ==
    {CommandContainer(_MTP_OPERATION_OPEN_SESSION, 1, <<1>>),
     CommandContainer(_MTP_OPERATION_SEND_OBJECT_INFO, 1, <<_MTP_STORAGE_ID, 0>>),
     DataContainer(_MTP_OPERATION_SEND_OBJECT_INFO, 1,
                   SendInfoPayload(_MTP_FORMAT_TEXT, 0, <<99>>, 66)),
     CommandContainer(_MTP_OPERATION_SEND_OBJECT, 1, <<>>),
     CommandContainer(_MTP_OPERATION_GET_OBJECT, 2, <<2>>)}
StreamMenu ==
    {CommandContainer(_MTP_OPERATION_GET_DEVICE_INFO, 1, <<>>),
     CommandContainer(_MTP_OPERATION_OPEN_SESSION, 2, <<1>>)}
FlowMenu ==
    {CommandContainer(_MTP_OPERATION_OPEN_SESSION, 1, <<1>>),
     CommandContainer(_MTP_OPERATION_GET_OBJECT, 2, <<2>>)}

\* ------------------------------------------------------------ actions
HistInit == [rx_stale |-> 0, tx_stale |-> 0, writes |-> 0, sent |-> <<>>]

\* How a container shows in the observation: kind, operation code,
\* transaction id.
KindOf(type) ==
    IF type = _MTP_CONTAINER_TYPE_COMMAND THEN "cmd"
    ELSE IF type = _MTP_CONTAINER_TYPE_DATA THEN "data" ELSE "other"
SentAs(c) == <<KindOf(HdrType(c)), HdrCode(c), HdrTransactionId(c)>>
ParsedKinds == {"cmd", "data", "other"}

\* The step's result w becomes the state. The observation notes whether the
\* step parsed a container out of bytes that predate the last reset, and
\* whether it submitted an IN transfer holding such bytes.
Commit(w) ==
    /\ mtp' = w.m
    /\ fs' = w.fs
    /\ ep_in' = w.ep_in
    /\ frame' = w.frame
    /\ ev' = [w.ev EXCEPT
                !.stale_rx = hist.rx_stale > 0 /\ Len(w.m.rx) < Len(mtp.rx),
                !.stale_tx = hist.tx_stale > 0 /\ ep_in = 0 /\ w.ep_in > 0,
                !.misparsed = /\ w.ev.kind \in ParsedKinds
                              /\ \/ hist.sent = <<>>
                                 \/ Head(hist.sent) # <<w.ev.kind, w.ev.code, w.ev.tid>>]
    /\ hist' = [hist EXCEPT
                !.rx_stale = Max(0, @ - (Len(mtp.rx) - Len(w.m.rx))),
                !.writes = IF w.fs = fs THEN @ ELSE @ + 1,
                !.sent = IF w.ev.kind \in ParsedKinds THEN Drop(@, 1) ELSE @]

\* MTPInterface._rx_xfer: the window of the OUT transfer now pending
rx_xfer(m, pending) ==
    IF m.open /\ pending = 0 /\ BufWritable(m.rx, RxSize) > 0
    THEN BufPendWriteLen(m.rx, RxSize, _BULK_EP_LEN)
    ELSE pending

\* MTPInterface._rx_cb with res = 0: the OUT transfer completed with data.
rx_cb(data) ==
    /\ mtp' = [mtp EXCEPT !.rx = BufFinishWrite(@, data)]
    /\ sched' = sched + 1
    /\ ep_out' = rx_xfer(mtp', 0)

\* The host queues container c behind what it has queued already.
HostSend(c) ==
    /\ mtp.open
    /\ Len(wire) + Len(mtp.rx) + Len(c) <= MaxStream
    /\ wire' = wire \o c
    /\ ev' = EvQuiet
    /\ hist' = [hist EXCEPT !.sent = Append(@, SentAs(c))]
    /\ UNCHANGED <<py, mtp, fs, ep_in, ep_out, sched, frame>>

\* The OUT transfer completes with the next n bytes the host has queued.
RxComplete(n) ==
    /\ ep_out > 0
    /\ n >= 1 /\ n <= ep_out /\ n <= Len(wire)
    /\ sched < MaxSched
    /\ rx_cb(Take(wire, n))
    /\ wire' = Drop(wire, n)
    /\ ev' = EvQuiet
    /\ UNCHANGED <<py, fs, ep_in, frame, hist>>

\* The synchronous host: it sends container c when the device has processed
\* what was sent before and no IN transfer is pending; the OUT transfer
\* completes with the first packet of c.
HostPacket(c) ==
    /\ mtp.open
    /\ ep_out > 0
    /\ wire = <<>>
    /\ sched = 0
    /\ ep_in = 0
    /\ Len(mtp.rx) <= MaxBacklog
    /\ LET n == Min(ep_out, Len(c))
       IN /\ rx_cb(Take(c, n))
          /\ wire' = Drop(c, n)
    /\ ev' = EvQuiet
    /\ hist' = [hist EXCEPT !.sent = Append(@, SentAs(c))]
    /\ UNCHANGED <<py, fs, ep_in, frame>>

\* The OUT transfer completes with the rest of a container longer than one
\* packet.
RxPacket == RxComplete(Min(ep_out, Len(wire)))

\* MTPInterface.on_open: the host configured the device.
OnOpen ==
    /\ ~mtp.open
    /\ mtp' = [mtp EXCEPT !.open = TRUE]
    /\ ep_out' = rx_xfer(mtp', ep_out)
    /\ ev' = EvQuiet
    /\ UNCHANGED <<py, fs, ep_in, wire, sched, frame, hist>>

\* on_reset that clears the session and leaves the transaction state.
on_reset_session_only(m) ==
    [m EXCEPT !.open = FALSE,
              !.session_open = FALSE,
              !.session_id = 0,
              !.transaction_id = 0]

\* MTPInterface.on_reset
on_reset(m) ==
    [m EXCEPT !.open = FALSE,
              !.session_open = FALSE,
              !.session_id = 0,
              !.transaction_id = 0,
              !.current_operation = None,
              !.current_params = None,
              !.data_expected = FALSE,
              !.data_phase_complete = FALSE,
              !.send_object_handle = None,
              !.send_object_info = None,
              !.get_object_handle = None]

\* Bus reset: the transport drops its pending transfers and the host what it
\* had queued; on_reset runs.
OnReset ==
    /\ mtp' = on_reset(mtp)
    /\ ep_in' = 0
    /\ ep_out' = 0
    /\ wire' = <<>>
    /\ ev' = [EvQuiet EXCEPT
                !.kind = "reset",
                !.before = Some([session_open |-> mtp.session_open,
                                 current_operation |-> mtp.current_operation,
                                 data_expected |-> mtp.data_expected,
                                 send_object_info |-> mtp.send_object_info # None])]
    /\ hist' = [hist EXCEPT !.rx_stale = Len(mtp.rx), !.tx_stale = Len(mtp.tx),
                            !.sent = <<>>]
    /\ UNCHANGED <<py, fs, sched, frame>>

\* A bus reset that finds the device quiescent: nothing buffered, nothing
\* scheduled, no handler suspended.
OnResetIdle ==
    /\ mtp.rx = <<>> /\ mtp.tx = <<>>
    /\ sched = 0
    /\ frame.pc = "idle"
    /\ OnReset

\* A bus reset while no bytes of an earlier reset are still buffered.
OnFirstReset ==
    /\ hist.rx_stale = 0 /\ hist.tx_stale = 0
    /\ OnReset

\* MTPInterface._tx_cb with res = 0: the IN transfer completed.
TxComplete ==
    /\ ep_in > 0
    /\ LET w == tx_xfer([World EXCEPT !.m.tx = BufFinishRead(@, ep_in), !.ep_in = 0])
       IN /\ mtp' = w.m
          /\ ep_in' = w.ep_in
    /\ ev' = EvQuiet
    /\ hist' = [hist EXCEPT !.tx_stale = Max(0, @ - ep_in)]
    /\ UNCHANGED <<py, fs, ep_out, wire, sched, frame>>

\* What the storage backend does during one run: fail, an os or file call
\* raises OSError; short, f.read hands out one byte less than os.stat
\* reported as the size. The backend reads files in full unless a
\* specification says otherwise.
IoOutcomes == {[fail |-> f, short |-> FALSE] : f \in BOOLEAN}
ShortReads == IoOutcomes \cup {[fail |-> FALSE, short |-> TRUE]}

\* One scheduled run of _process_rx with the backend behaving as one of
\* outcomes.
ProcessRxWith(outcomes) ==
    /\ sched > 0
    /\ frame.pc = "idle"
    /\ sched' = sched - 1
    /\ \E io \in outcomes :
         LET w == process_rx(World, io)
         IN /\ w.m.next_object_handle <= MaxHandle + 1
            /\ w.fs # fs => hist.writes < MaxWrites
            /\ Commit(w)
    /\ UNCHANGED <<py, ep_out, wire>>

\* One scheduled run of _process_rx.
ProcessRx == ProcessRxWith(IoOutcomes)

\* One scheduled run of _process_rx over a backend whose reads may come up
\* short.
ProcessRxShortRead == ProcessRxWith(ShortReads)

\* The suspended GetObject handler wakes from time.sleep_ms.
GetObjectResume ==
    /\ frame.pc # "idle"
    /\ LET w0 == [World EXCEPT !.ev.kind = "cont"]
           w1 == IF frame.pc = "wait" THEN get_object_loop(w0) ELSE get_object_drain(w0)
       IN Commit(IF w1.frame.pc = "idle" THEN w1
                 ELSE [w1 EXCEPT !.frame.tick = ~frame.tick])
    /\ UNCHANGED <<py, ep_out, wire, sched>>

\* ------------------------------------------------------------ importlib
\* python-stdlib/importlib. The directories sys.path can name: "." (0), which
\* holds no importlib_test_data.py, tests/imp1 (1) and tests/imp2 (2), whose
\* importlib_test_data.py set test_data to "one" and to "two".
Dirs == {0, 1, 2}
test_data(dir) == IF dir = 1 THEN "one" ELSE "two"
ModuleNames == {"importlib_test_data"}
GlobalNames == {"importlib_test_data", "nm"}

\* Most module objects created in one run.
MaxObjects == 3

\* The interpreter before the first import: getframe tells whether the build
\* has sys._getframe. Module objects are numbered in order of creation.
PyInit(getframe) ==
    [getframe |-> getframe,
     path |-> <<0>>,
     modules |-> [name \in ModuleNames |-> None],
     globals |-> [g \in GlobalNames |-> None],
     objs |-> <<>>,
     res |-> [op |-> "none", raised |-> FALSE, module |-> 0, value |-> 0]]

\* The first directory of path that holds the module, as __import__ searches.
RECURSIVE FindModule(_)
FindModule(path) ==
    IF path = <<>> THEN None
    ELSE IF path[1] \in {1, 2} THEN Some(path[1])
    ELSE FindModule(Tail(path))

\* importlib.import_module for a name without dots: __import__(name) returns
\* the registered module or loads it from the first directory that has it;
\* [p, raised, mod].
import_module(p, name) ==
    IF p.modules[name] # None
    THEN [p |-> p, raised |-> FALSE, mod |-> p.modules[name][1]]
    ELSE LET dir == FindModule(p.path)
             mod == Len(p.objs) + 1
         IN IF dir = None THEN [p |-> p, raised |-> TRUE, mod |-> 0]
            ELSE [p |-> [p EXCEPT !.objs = Append(@, [name |-> name,
                                                     test_data |-> test_data(dir[1])]),
                                  !.modules[name] = Some(mod)],
                  raised |-> FALSE, mod |-> mod]

\* importlib.reload; [p, raised, mod].
reload(p, module) ==
    LET fullname == p.objs[module].name
    IN IF p.modules[fullname] # Some(module)
       THEN [p |-> p, raised |-> TRUE, mod |-> 0]
       ELSE LET r == import_module([p EXCEPT !.modules[fullname] = None], fullname)
            IN IF r.raised THEN r
               ELSE IF p.getframe
               THEN [r EXCEPT !.p.globals =
                        [g \in GlobalNames |->
                            IF p.globals[g] = Some(module) THEN Some(r.mod) ELSE p.globals[g]]]
               ELSE r

\* sys.path.append(dir) / sys.path.remove(dir) in the caller.
PathAppend(dir) ==
    /\ \A i \in 1..Len(py.path) : py.path[i] # dir
    /\ py' = [py EXCEPT !.path = Append(@, dir),
                        !.res = [op |-> "none", raised |-> FALSE, module |-> 0, value |-> 0]]
    /\ UNCHANGED <<mtp, fs, ep_in, ep_out, wire, sched, frame, ev, hist>>
PathRemove(dir) ==
    /\ \E i \in 1..Len(py.path) : py.path[i] = dir
    /\ py' = [py EXCEPT !.path = SelectSeq(@, LAMBDA d : d # dir),
                        !.res = [op |-> "none", raised |-> FALSE, module |-> 0, value |-> 0]]
    /\ UNCHANGED <<mtp, fs, ep_in, ep_out, wire, sched, frame, ev, hist>>

\* `import importlib_test_data` in the caller: binds the name on success.
ImportStatement(name) ==
    /\ Len(py.objs) < MaxObjects
    /\ LET r == import_module(py, name)
       IN py' = [r.p EXCEPT !.globals[name] = IF r.raised THEN @ ELSE Some(r.mod),
                            !.res = [op |-> "import", raised |-> r.raised,
                                     module |-> 0, value |-> r.mod]]
    /\ UNCHANGED <<mtp, fs, ep_in, ep_out, wire, sched, frame, ev, hist>>

\* `nm = importlib.reload(g)` in the caller, g a global bound to a module.
Reload(g) ==
    /\ py.globals[g] # None
    /\ Len(py.objs) < MaxObjects
    /\ LET module == py.globals[g][1]
           r == reload(py, module)
       IN py' = [r.p EXCEPT !.globals["nm"] = IF r.raised THEN @ ELSE Some(r.mod),
                            !.res = [op |-> "reload", raised |-> r.raised,
                                     module |-> module, value |-> r.mod]]
    /\ UNCHANGED <<mtp, fs, ep_in, ep_out, wire, sched, frame, ev, hist>>

Init ==
    /\ mtp = MtpInit
    /\ fs = FsInit
    /\ ep_in = 0
    /\ ep_out = 0
    /\ wire = <<>>
    /\ sched = 0
    /\ frame = FrameIdle
    /\ ev = EvQuiet
    /\ hist = HistInit
    /\ py = PyInit(TRUE)

\* The engine under a synchronous host that uses every operation; bus resets
\* find the device quiescent.
Next ==
    \/ \E c \in CommandMenu \cup DataMenu : HostPacket(c)
    \/ RxPacket
    \/ OnOpen
    \/ OnResetIdle
    \/ TxComplete
    \/ ProcessRx
    \/ GetObjectResume

Spec == Init /\ [][Next]_vars

\* The engine under bus resets at any moment.
NextReset ==
    \/ \E c \in ResetMenu : HostPacket(c)
    \/ RxPacket
    \/ OnOpen
    \/ OnReset
    \/ TxComplete
    \/ ProcessRx
    \/ GetObjectResume

SpecReset == Init /\ [][NextReset]_vars

\* The framer under a host that streams containers back to back, the
\* transport cutting the stream into chunks of any size.
NextStream ==
    \/ \E c \in StreamMenu : HostSend(c)
    \/ \E n \in 1.._BULK_EP_LEN : RxComplete(n)
    \/ OnOpen
    \/ TxComplete
    \/ ProcessRx

SpecStream == Init /\ [][NextStream]_vars

\* Object transfer with a reset. A handler sleeping in time.sleep_ms wakes
\* up, and the transport completes a pending IN transfer (the host reads what
\* the device offers); whether the host sends, resets or configures the
\* device again is up to the host.
NextFlow ==
    \/ \E c \in FlowMenu : HostPacket(c)
    \/ OnOpen
    \/ OnFirstReset
    \/ TxComplete
    \/ ProcessRx
    \/ GetObjectResume

SpecFlow ==
    /\ Init
    /\ [][NextFlow]_vars
    /\ WF_vars(GetObjectResume)
    /\ WF_vars(TxComplete)

\* ------------------------------------------------------------ claims
\* What the claims speak of.
SessionOf(m) == <<m.session_open, m.session_id>>
Catalog(m) == <<m.object_handles, m.parent_map, m.next_object_handle>>
TransactionIdle(m) ==
    m.current_operation = None /\ ~m.data_expected /\ ~m.data_phase_complete
\* Everything the host sent has been delivered and every scheduled run of
\* _process_rx has run.
Quiescent == wire = <<>> /\ sched = 0 /\ frame.pc = "idle"
PathA == <<47, 97, 46, 116, 120, 116>>                   \* "/a.txt"

\* C1: while no session is open, a Command with any operation code other
\* than GetDeviceInfo and OpenSession is answered SessionNotOpen, one Response
\* and no Data container, and the step changes neither session, catalog,
\* pending send-object info, storage nor any suspended handler.
C1_SessionGate ==
    [][(/\ ev'.kind = "cmd"
        /\ ~mtp.session_open
        /\ ev'.code \notin {_MTP_OPERATION_GET_DEVICE_INFO, _MTP_OPERATION_OPEN_SESSION})
       => /\ ev'.resp = Some(_MTP_RESPONSE_SESSION_NOT_OPEN)
          /\ (mtp.open => ev'.n_resp = 1)
          /\ ev'.n_data = 0
          /\ ev'.phase = None
          /\ ~ev'.raised
          /\ SessionOf(mtp') = SessionOf(mtp)
          /\ Catalog(mtp') = Catalog(mtp)
          /\ mtp'.send_object_info = mtp.send_object_info
          /\ fs' = fs
          /\ frame' = frame]_vars

\* DeleteObject of the catalogued file /a.txt was just refused with
\* SessionNotOpen: the session is closed, the file and its handle remain.
C1_Witness ==
    /\ ev.kind = "cmd"
    /\ ev.code = _MTP_OPERATION_DELETE_OBJECT
    /\ ev.params = <<2>>
    /\ ev.resp = Some(_MTP_RESPONSE_SESSION_NOT_OPEN)
    /\ ev.n_resp = 1
    /\ ~mtp.session_open
    /\ 2 \in DOMAIN mtp.object_handles
    /\ mtp.object_handles[2] = PathA
    /\ FsExists(fs, PathA)

\* C2 as stated: every OpenSession received while a session is open is
\* answered SessionAlreadyOpen and leaves session and catalog as they were.
C2_AlreadyOpenAlways ==
    [][(/\ ev'.kind = "cmd"
        /\ ev'.code = _MTP_OPERATION_OPEN_SESSION
        /\ mtp.session_open)
       => /\ ev'.resp = Some(_MTP_RESPONSE_SESSION_ALREADY_OPEN)
          /\ SessionOf(mtp') = SessionOf(mtp)
          /\ Catalog(mtp') = Catalog(mtp)]_vars

\* C2 amended: an OpenSession received while a session is open is answered
\* SessionAlreadyOpen when it carries a non-zero session id and
\* InvalidParameter when the id is missing or zero; either way the session
\* stays open with its id and the catalog is not rescanned.
C2_AlreadyOpen ==
    [][(/\ ev'.kind = "cmd"
        /\ ev'.code = _MTP_OPERATION_OPEN_SESSION
        /\ mtp.session_open)
       => /\ ev'.resp = Some(IF ev'.params = <<>> \/ ev'.params[1] = 0
                             THEN _MTP_RESPONSE_INVALID_PARAMETER
                             ELSE _MTP_RESPONSE_SESSION_ALREADY_OPEN)
          /\ ev'.n_resp = 1
          /\ mtp'.session_open
          /\ SessionOf(mtp') = SessionOf(mtp)
          /\ Catalog(mtp') = Catalog(mtp)]_vars

\* OpenSession(2) was just refused with SessionAlreadyOpen while session 1 is
\* open, its catalog holding a gap left by a deletion (a rescan would close it).
C2_Witness ==
    /\ ev.kind = "cmd"
    /\ ev.code = _MTP_OPERATION_OPEN_SESSION
    /\ ev.params = <<2>>
    /\ ev.resp = Some(_MTP_RESPONSE_SESSION_ALREADY_OPEN)
    /\ mtp.session_open
    /\ mtp.session_id = 1
    /\ DOMAIN mtp.object_handles = {1, 3, 4}

\* C3 as stated: CloseSession received while no session is open is answered
\* OK and the session stays closed.
C3_CloseWhenClosedOk ==
    [][(/\ ev'.kind = "cmd"
        /\ ev'.code = _MTP_OPERATION_CLOSE_SESSION
        /\ ~mtp.session_open)
       => /\ ev'.resp = Some(_MTP_RESPONSE_OK)
          /\ ~mtp'.session_open]_vars

\* C3 amended: CloseSession received while no session is open is answered
\* SessionNotOpen and the session stays closed.
C3_CloseWhenClosed ==
    [][(/\ ev'.kind = "cmd"
        /\ ev'.code = _MTP_OPERATION_CLOSE_SESSION
        /\ ~mtp.session_open)
       => /\ ev'.resp = Some(_MTP_RESPONSE_SESSION_NOT_OPEN)
          /\ (mtp.open => ev'.n_resp = 1)
          /\ SessionOf(mtp') = <<FALSE, 0>>]_vars

\* A second CloseSession in a row was just answered SessionNotOpen.
C3_Witness ==
    /\ ev.kind = "cmd"
    /\ ev.code = _MTP_OPERATION_CLOSE_SESSION
    /\ ev.resp = Some(_MTP_RESPONSE_SESSION_NOT_OPEN)
    /\ ev.n_resp = 1
    /\ ~mtp.session_open
    /\ mtp.object_handles # EmptyDict

\* C4: no exception escapes a dispatched container, and each Command gets
\* exactly one Response: in the step that dispatches it, or, for
\* SendObjectInfo and SendObject awaiting their Data container, in the step
\* that processes the Data container, or when the suspended GetObject
\* transfer ends.
C4_OneResponse ==
    /\ ~ev.raised
    /\ ev.kind = "cmd" =>
         \/ ev.n_resp = 1
         \/ /\ ev.n_resp = 0
            /\ ev.code \in {_MTP_OPERATION_SEND_OBJECT_INFO, _MTP_OPERATION_SEND_OBJECT}
            /\ mtp.data_expected
            /\ mtp.current_operation = Some(ev.code)
         \/ /\ ev.n_resp = 0
            /\ ev.code = _MTP_OPERATION_GET_OBJECT
            /\ frame.pc # "idle"
    /\ ev.kind = "data" => ev.n_resp = 1
    /\ ev.kind = "cont" => \/ ev.n_resp = 1 /\ frame.pc = "idle"
                           \/ ev.n_resp = 0 /\ frame.pc # "idle"

\* C5: a Data container that arrives with no transaction pending, or after
\* the pending transaction's data phase, is answered GeneralError, reaches no
\* data-phase handler, changes neither session, catalog, pending send-object
\* info nor storage, and is consumed whole, so that the next container is
\* parsed from the byte after it.
C5_UnexpectedData ==
    [][(/\ ev'.kind = "data"
        /\ NoCurrentOperation(mtp) \/ mtp.data_phase_complete)
       => /\ ev'.resp = Some(_MTP_RESPONSE_GENERAL_ERROR)
          /\ ev'.phase = None
          /\ SessionOf(mtp') = SessionOf(mtp)
          /\ Catalog(mtp') = Catalog(mtp)
          /\ mtp'.send_object_info = mtp.send_object_info
          /\ fs' = fs
          /\ Len(mtp.rx) - Len(mtp'.rx) = HdrLength(mtp.rx)]_vars

\* C6: whatever the chunks, the containers the host sent are parsed in the
\* order sent, and once every chunk is delivered and every scheduled run has
\* run, all of them have been dispatched.
C6_ChunkIndependence ==
    /\ ~ev.misparsed
    /\ Quiescent => hist.sent = <<>>

\* C7: right after a Response is emitted the transaction state is Idle, and
\* the Command the host sends next is dispatched: it is parsed as sent, and
\* none is left undispatched once delivered and processed.
C7_IdleAfterResponse ==
    /\ ev.n_resp > 0 => TransactionIdle(mtp)
    /\ ~ev.misparsed
    /\ Quiescent => \A i \in 1..Len(hist.sent) : hist.sent[i][1] # "cmd"

\* C8: right after on_reset the session is closed with id 0, there is no
\* current operation or parameters, no data phase expected or complete, and
\* no pending send-object or get-object state.
C8_ResetClears ==
    ev.kind = "reset" =>
        /\ ~mtp.session_open
        /\ mtp.session_id = 0
        /\ mtp.current_operation = None
        /\ mtp.current_params = None
        /\ ~mtp.data_expected
        /\ ~mtp.data_phase_complete
        /\ mtp.send_object_handle = None
        /\ mtp.send_object_info = None
        /\ mtp.get_object_handle = None

\* A reset just hit an open session whose SendObjectInfo had completed, its
\* SendObject still to come.
C8_Witness ==
    /\ ev.kind = "reset"
    /\ ev.before = Some([session_open |-> TRUE,
                         current_operation |-> None,
                         data_expected |-> FALSE,
                         send_object_info |-> TRUE])
    /\ mtp.send_object_info = None
    /\ ~mtp.session_open

\* C9: no step after a reset parses bytes that were in the RX buffer before
\* it, and none hands the host bytes that were in the TX buffer before it.
C9_ResetDiscards == ~ev.stale_rx /\ ~ev.stale_tx

\* C10: a GetObject handler that is waiting inside its transfer loops
\* eventually returns.
C10_HandlerReturns == (frame.pc # "idle") ~> (frame.pc = "idle")

\* C11: a run of _process_rx that finds fewer than 12 bytes in the RX buffer,
\* or a header whose declared length exceeds the bytes buffered, consumes
\* nothing, emits nothing and changes neither the engine's fields, the
\* storage nor the pending IN transfer; so does every repetition of it.
C11_NoOpPoll ==
    [][(/\ sched' = sched - 1
        /\ \/ Len(mtp.rx) < _CONTAINER_HEADER_SIZE
           \/ U32Less(Len(mtp.rx), HdrLength(mtp.rx)))
       => /\ mtp' = mtp
          /\ fs' = fs
          /\ ep_in' = ep_in
          /\ frame' = frame
          /\ ev'.kind = "poll"
          /\ ev'.resp = None
          /\ ev'.n_resp = 0
          /\ ev'.n_data = 0
          /\ ~ev'.raised]_vars

\* A poll just found a complete header of a container whose parameters have
\* not arrived, and another run is already scheduled.
C11_Witness ==
    /\ ev.kind = "poll"
    /\ Len(mtp.rx) >= _CONTAINER_HEADER_SIZE
    /\ U32Less(Len(mtp.rx), HdrLength(mtp.rx))
    /\ sched > 0

\* ---------------------------------------------------------------------------
\* Reception of a container longer than the RX buffer.
\* ---------------------------------------------------------------------------

\* Session commands and one Data container whose declared length is four
\* bytes more than the RX buffer holds.
BigMenu ==
    Commands(_MTP_OPERATION_GET_DEVICE_INFO, {<<>>})
    \cup Commands(_MTP_OPERATION_OPEN_SESSION, {<<1>>})
    \cup Commands(_MTP_OPERATION_CLOSE_SESSION, {<<>>})
    \cup Commands(_MTP_OPERATION_SEND_OBJECT_INFO, {<<_MTP_STORAGE_ID, 0>>})
    \cup {DataContainer(_MTP_OPERATION_SEND_OBJECT_INFO, 1, Zeros(RxSize - 8))}

\* micropython.schedule runs every callback it accepted (_rx_cb, line 313):
\* weak fairness of ProcessRx, written out (only ProcessRx decrements sched).
ProcessRxFair ==
    \/ []<>~(sched > 0 /\ frame.pc = "idle")
    \/ []<><<sched' = sched - 1>>_vars

NextBig ==
    \/ \E c \in BigMenu : HostPacket(c)
    \/ RxPacket
    \/ OnOpen
    \/ TxComplete
    \/ ProcessRx

\* The transport completes every transfer it was handed (_rx_xfer line 303,
\* _tx_xfer line 330) and the scheduler runs _process_rx.
SpecBig ==
    /\ Init
    /\ [][NextBig]_vars
    /\ WF_vars(RxPacket)
    /\ WF_vars(TxComplete)
    /\ ProcessRxFair

\* C12: once the host has sent the bytes of a container, the container is
\* eventually parsed and dispatched, whatever its declared length, also when
\* that length exceeds the capacity of the RX buffer.
C12_EventuallyParsed == (hist.sent # <<>>) ~> (hist.sent = <<>>)

\* ---------------------------------------------------------------------------
\* A Data container the host cuts short.
\* ---------------------------------------------------------------------------

\* A Data container whose header declares `declared` payload bytes and of
\* which the host sends only `payload`.
ShortDataContainer(code, tid, declared, payload) ==
    ContainerHeader(_CONTAINER_HEADER_SIZE + declared,
                    _MTP_CONTAINER_TYPE_DATA, code, tid) \o payload

\* The SendObjectInfo / SendObject exchange, with a complete ObjectInfo
\* dataset and one of which only the first 8 of 66 bytes are sent.
ShortMenu ==
    Commands(_MTP_OPERATION_OPEN_SESSION, {<<1>>})
    \cup Commands(_MTP_OPERATION_SEND_OBJECT_INFO, {<<_MTP_STORAGE_ID, 0>>})
    \cup Commands(_MTP_OPERATION_SEND_OBJECT, {<<>>})
    \cup {DataContainer(_MTP_OPERATION_SEND_OBJECT_INFO, 1,
                        SendInfoPayload(_MTP_FORMAT_TEXT, 0, <<99>>, 66)),
          ShortDataContainer(_MTP_OPERATION_SEND_OBJECT_INFO, 1, 66,
                             SendInfoPayload(_MTP_FORMAT_TEXT, 0, <<99>>, 8))}

NextShort ==
    \/ \E c \in ShortMenu : HostPacket(c)
    \/ RxPacket
    \/ OnOpen
    \/ TxComplete
    \/ ProcessRx

\* Every pending transfer completes and every scheduled _process_rx runs; the
\* host is free to send nothing more.
SpecShort ==
    /\ Init
    /\ [][NextShort]_vars
    /\ WF_vars(RxPacket)
    /\ WF_vars(TxComplete)
    /\ ProcessRxFair

\* C13: when the bytes buffered cannot satisfy the declared length of a Data
\* container and no more arrive, the engine answers IncompleteTransfer and
\* drops the partial payload from the RX buffer.
C13_IncompleteTransfer ==
    (/\ Len(mtp.rx) >= _CONTAINER_HEADER_SIZE
     /\ HdrType(mtp.rx) = _MTP_CONTAINER_TYPE_DATA
     /\ U32Less(Len(mtp.rx), HdrLength(mtp.rx))
     /\ wire = <<>>)
        ~> (ev.resp = Some(_MTP_RESPONSE_INCOMPLETE_TRANSFER) /\ mtp.rx = <<>>)

\* ---------------------------------------------------------------------------
\* Framing: how many bytes one run of _process_rx consumes.
\* ---------------------------------------------------------------------------

\* A container of any type with its payload, complete on the wire.
RawContainer(type, code, tid, payload) ==
    ContainerHeader(_CONTAINER_HEADER_SIZE + Len(payload), type, code, tid) \o payload

\* Command containers with zero, one and six parameters and with a payload of
\* one byte, and a Response, an Event and a container of an unknown type; no
\* Data containers. Each fits one packet.
FrameMenu ==
    Commands(_MTP_OPERATION_GET_DEVICE_INFO, {<<>>, <<0, 0, 0, 0, 0, 0>>})
    \cup Commands(_MTP_OPERATION_OPEN_SESSION, {<<1>>})
    \cup {RawContainer(_MTP_CONTAINER_TYPE_COMMAND, _MTP_OPERATION_GET_DEVICE_INFO, 1, <<0>>),
          RawContainer(_MTP_CONTAINER_TYPE_RESPONSE, _MTP_RESPONSE_OK, 1, U32(0)),
          RawContainer(_MTP_CONTAINER_TYPE_EVENT, _MTP_OPERATION_GET_DEVICE_INFO, 1, U32(0)),
          RawContainer(9, _MTP_OPERATION_GET_DEVICE_INFO, 1, U32(0))}

NextFrame ==
    \/ \E c \in FrameMenu : HostPacket(c)
    \/ OnOpen
    \/ TxComplete
    \/ ProcessRx

SpecFrame == Init /\ [][NextFrame]_vars

\* C14: a run of _process_rx that parses a fully buffered container of
\* declared length L consumes exactly L bytes of the RX buffer, whatever the
\* container's type, operation code and parameter count, accepted or not.
C14_ConsumesDeclaredLength ==
    [][(sched' = sched - 1 /\ ev'.kind \in ParsedKinds)
       => Len(mtp'.rx) = Len(mtp.rx) - HdrLength(mtp.rx)]_vars

\* ---------------------------------------------------------------------------
\* The object catalog.
\* ---------------------------------------------------------------------------

\* C15: right after a successful OpenSession, handle 1 maps to the storage
\* root with parent 0, the handles are exactly 1..N, no two of them name the
\* same path, every other handle's parent chain leads to handle 1, and the
\* numbering is depth-first: the handles between a parent and its child all
\* lie below that parent.
C15_RescanShape ==
    (ev.kind = "cmd" /\ ev.code = _MTP_OPERATION_OPEN_SESSION
                     /\ ev.resp = Some(_MTP_RESPONSE_OK))
    => LET oh == mtp.object_handles
           pm == mtp.parent_map
           N == mtp.next_object_handle - 1
           anc[h \in 0..N] ==
               IF h > 1 /\ h \in DOMAIN pm /\ pm[h] \in 1..(h - 1)
               THEN {pm[h]} \cup anc[pm[h]]
               ELSE {}
       IN /\ N >= 1
          /\ DOMAIN oh = 1..N
          /\ DOMAIN pm = 1..N
          /\ oh[1] = storage_path
          /\ pm[1] = 0
          /\ \A h, k \in 1..N : oh[h] = oh[k] => h = k
          /\ \A h \in 2..N :
                /\ 1 \in anc[h]
                /\ \A k \in (pm[h] + 1)..(h - 1) : pm[h] \in anc[k]

\* An OpenSession has just rescanned a storage that differs from the initial
\* one and holds an entry below a subdirectory.
C15_Witness ==
    /\ ev.kind = "cmd"
    /\ ev.code = _MTP_OPERATION_OPEN_SESSION
    /\ ev.resp = Some(_MTP_RESPONSE_OK)
    /\ fs # FsInit
    /\ \E h \in DOMAIN mtp.parent_map : mtp.parent_map[h] > 1

\* A host that browses and changes the catalog: it opens and closes the
\* session, lists the children of a parent, deletes the root, a file and a
\* directory, and creates the file "c".
CatalogMenu ==
    CommandsAt(_MTP_OPERATION_OPEN_SESSION, {1}, {<<1>>})
    \cup CommandsAt(_MTP_OPERATION_CLOSE_SESSION, {1}, {<<>>})
    \cup CommandsAt(_MTP_OPERATION_GET_OBJECT_HANDLES, {1},
                    {<<_MTP_STORAGE_ID, f, p>> :
                        f \in {0, _MTP_FORMAT_TEXT}, p \in {0, 1, 3, _WILDCARD}})
    \cup CommandsAt(_MTP_OPERATION_DELETE_OBJECT, {1}, {<<1>>, <<2>>, <<3>>})
    \cup CommandsAt(_MTP_OPERATION_SEND_OBJECT_INFO, {1}, {<<_MTP_STORAGE_ID, 0>>})
    \cup CommandsAt(_MTP_OPERATION_SEND_OBJECT, {1}, {<<>>})
    \cup {DataContainer(_MTP_OPERATION_SEND_OBJECT_INFO, 1,
                        SendInfoPayload(_MTP_FORMAT_TEXT, 0, <<99>>, 66))}

NextCatalog ==
    \/ \E c \in CatalogMenu : HostPacket(c)
    \/ RxPacket
    \/ TxComplete
    \/ OnOpen
    \/ ProcessRx

SpecCatalog == Init /\ [][NextCatalog]_vars

\* C16: while a session is open, handle 1 is present in the catalog, maps to
\* the storage root and has parent 0.
C16_RootHandle ==
    mtp.session_open
    => /\ 1 \in DOMAIN mtp.object_handles
       /\ 1 \in DOMAIN mtp.parent_map
       /\ mtp.object_handles[1] = storage_path
       /\ mtp.parent_map[1] = 0

\* C17: right after a successful OpenSession the catalog is a fresh scan of
\* the storage: its handles are 1..N and the next handle is N + 1, handle 1
\* is the storage root, every other entry names a path the storage holds,
\* every path of the storage has exactly one entry, and each entry's parent
\* is the entry of the directory that holds it. No entry of an object that
\* is gone from the storage survives.
C17_RescanReplaces ==
    (ev.kind = "cmd" /\ ev.code = _MTP_OPERATION_OPEN_SESSION
                     /\ ev.resp = Some(_MTP_RESPONSE_OK))
    => LET oh == mtp.object_handles
           pm == mtp.parent_map
           N == mtp.next_object_handle - 1
       IN /\ DOMAIN oh = 1..N
          /\ DOMAIN pm = 1..N
          /\ oh[1] = storage_path
          /\ {oh[h] : h \in 1..N} = {storage_path} \cup DOMAIN fs
          /\ Cardinality({storage_path} \cup DOMAIN fs) = N
          /\ \A h \in 2..N : /\ pm[h] \in 1..N
                             /\ oh[pm[h]] = ParentPath(oh[h])

\* An OpenSession has just rescanned a storage from which the directory
\* "/sub" was deleted during an earlier session.
C17_Witness ==
    /\ ev.kind = "cmd"
    /\ ev.code = _MTP_OPERATION_OPEN_SESSION
    /\ ev.resp = Some(_MTP_RESPONSE_OK)
    /\ <<47>> \in DOMAIN fs
    /\ <<47, 115, 117, 98>> \notin DOMAIN fs

\* C18: the handle that SendObjectInfo allocated is not in the catalog at the
\* moment the following SendObject inserts it, so SendObject never replaces
\* an existing catalog entry.
C18_FreshHandle ==
    [][(/\ sched' = sched - 1
        /\ ev'.kind = "data"
        /\ ev'.phase = Some(_MTP_OPERATION_SEND_OBJECT)
        /\ ev'.resp = Some(_MTP_RESPONSE_OK))
       => /\ mtp.send_object_info # None
          /\ mtp.send_object_info[1].handle \notin DOMAIN mtp.object_handles]_vars

\* C19: when GetObjectHandles was answered for a parent argument other than
\* 0xFFFFFFFF, a GetObjectInfo for each handle of the returned array, sent
\* while the catalog and the storage are still the same, is answered OK with
\* an ObjectInfo dataset whose parent field (offset 38) is that argument.
C19_ListedParent ==
    (/\ ev.kind = "cmd"
     /\ ev.code = _MTP_OPERATION_GET_OBJECT_HANDLES
     /\ ev.resp = Some(_MTP_RESPONSE_OK)
     /\ ev.data # None
     /\ ParamOr0(ev.params, 2) # _WILDCARD)
    => LET array == ev.data[1]
           parent == ParamOr0(ev.params, 2)
       IN \A i \in 1..LE32(array, 0) :
            LET handle == LE32(array, 4 * i)
                w == cmd_get_object_info(
                        [World EXCEPT
                           !.m.current_operation = Some(_MTP_OPERATION_GET_OBJECT_INFO),
                           !.m.current_params = Some(<<handle>>)],
                        <<handle>>, [fail |-> FALSE])
            IN /\ w.ev.resp = Some(_MTP_RESPONSE_OK)
               /\ w.ev.data # None
               /\ LE32(w.ev.data[1], 38) = parent

\* C20: GetObjectHandles for a parent argument p that is neither 0 nor
\* 0xFFFFFFFF returns an array whose count prefix is the number of handles
\* that follow, and whose handles are exactly the catalog entries with
\* recorded parent p that pass the format filter (0 passes all): no entry
\* further down, not p itself, none missing, none twice.
C20_DirectChildren ==
    (/\ ev.kind = "cmd"
     /\ ev.code = _MTP_OPERATION_GET_OBJECT_HANDLES
     /\ ev.resp = Some(_MTP_RESPONSE_OK)
     /\ ev.data # None
     /\ ParamOr0(ev.params, 2) \notin {0, _WILDCARD})
    => LET array == ev.data[1]
           count == LE32(array, 0)
           format_code == ParamOr0(ev.params, 1)
           p == ParamOr0(ev.params, 2)
           returned == {LE32(array, 4 * i) : i \in 1..count}
           children ==
               {h \in DOMAIN mtp.parent_map \cap DOMAIN mtp.object_handles :
                   /\ mtp.parent_map[h] = p
                   /\ \/ format_code = 0
                      \/ get_format_by_path(fs, mtp.object_handles[h]) = format_code}
       IN /\ Len(array) = 4 + 4 * count
          /\ returned = children
          /\ Cardinality(returned) = count
          /\ p \notin returned

\* GetObjectHandles for parent 1 and format 0 has just returned two handles
\* while the catalog also holds an entry below the directory of handle 3.
C20_Witness ==
    /\ ev.kind = "cmd"
    /\ ev.code = _MTP_OPERATION_GET_OBJECT_HANDLES
    /\ ev.params = <<_MTP_STORAGE_ID, 0, 1>>
    /\ ev.data # None
    /\ LE32(ev.data[1], 0) = 2
    /\ 4 \in DOMAIN mtp.parent_map
    /\ mtp.parent_map[4] = 3

\* ---------------------------------------------------------------------------
\* Object transfer to the host.
\* ---------------------------------------------------------------------------

\* A host that reads objects: the files of handles 2 and 4, the directory of
\* handle 3, an unknown handle, and a range of handle 2 with GetPartialObject.
ObjectMenu ==
    CommandsAt(_MTP_OPERATION_OPEN_SESSION, {1}, {<<1>>})
    \cup Commands(_MTP_OPERATION_GET_OBJECT, {<<2>>, <<3>>, <<4>>, <<7>>})
    \cup CommandsAt(_MTP_OPERATION_GET_PARTIAL_OBJECT, {2}, {<<2, 1, 2>>})

\* No bus reset; the storage backend may read short.
NextObject ==
    \/ \E c \in ObjectMenu : HostPacket(c)
    \/ OnOpen
    \/ TxComplete
    \/ ProcessRxShortRead
    \/ GetObjectResume

SpecObject == Init /\ [][NextObject]_vars

\* C21: when GetObject answers OK, the file bytes it has written behind the
\* Data container's header are as many as the header declares beyond its own
\* 12 bytes, also when the backend hands out fewer bytes than the stat size.
C21_PayloadMatchesLength ==
    [][(frame.pc # "idle" /\ frame'.pc = "idle"
                          /\ ev'.resp = Some(_MTP_RESPONSE_OK))
       => frame.bytes_sent = frame.filesize]_vars

\* C22: DeleteObject on the handle of a directory that holds entries is
\* answered PartialDeletion, and the catalog entries of the objects below
\* that directory stay in the catalog.
C22_PartialDeletion ==
    [][(/\ sched' = sched - 1
        /\ ev'.kind = "cmd"
        /\ ev'.code = _MTP_OPERATION_DELETE_OBJECT
        /\ mtp.session_open
        /\ ev'.params # <<>>
        /\ ev'.params[1] \in DOMAIN mtp.object_handles
        /\ FsExists(fs, mtp.object_handles[ev'.params[1]])
        /\ FsIsDir(fs, mtp.object_handles[ev'.params[1]])
        /\ fs[NormPath(mtp.object_handles[ev'.params[1]])].names # <<>>)
       => /\ ev'.resp = Some(_MTP_RESPONSE_PARTIAL_DELETION)
          /\ \A h \in DOMAIN mtp.parent_map :
                mtp.parent_map[h] = ev'.params[1]
                => /\ h \in DOMAIN mtp'.object_handles
                   /\ h \in DOMAIN mtp'.parent_map]_vars

C24_PartialObjectServed ==
    [][(/\ sched' = sched - 1
        /\ ev'.kind = "cmd"
        /\ ev'.code = _MTP_OPERATION_GET_PARTIAL_OBJECT
        /\ mtp.session_open
        /\ Len(ev'.params) = 3
        /\ ev'.params[1] \in DOMAIN mtp.object_handles
        /\ FsExists(fs, mtp.object_handles[ev'.params[1]])
        /\ ~FsIsDir(fs, mtp.object_handles[ev'.params[1]]))
       => /\ ev'.n_data = 1
          /\ ev'.resp # Some(_MTP_RESPONSE_OPERATION_NOT_SUPPORTED)]_vars

\* C25: the bytes a run of _process_rx hands to the TX buffer's write (the
\* header and payload of a Data container built by _send_data, and the
\* Response container) are no more than the space the buffer has at that
\* moment, so that every container is queued whole.
C25_WritesFit ==
    [][(/\ sched' = sched - 1
        /\ mtp.open
        /\ ~(ev'.kind = "cmd" /\ ev'.code = _MTP_OPERATION_GET_OBJECT))
       => LET data_bytes == IF ev'.data # None
                            THEN _CONTAINER_HEADER_SIZE + Len(ev'.data[1]) ELSE 0
              resp_bytes == IF ev'.n_resp > 0
                            THEN _CONTAINER_HEADER_SIZE + 4 * Len(ev'.resp_params)
                            ELSE 0
          IN /\ data_bytes + resp_bytes <= BufWritable(mtp.tx, TxSize)
             /\ Len(mtp'.tx) = Len(mtp.tx) + data_bytes + resp_bytes]_vars

\* ---------------------------------------------------------------------------
\* The MTP string codec on its own.
\* ---------------------------------------------------------------------------

\* Longest string the codec is tried on.
MaxName == 3

\* UTF-16 code units of one and of two significant bytes; none is null.
CodeUnits == {65, 99, 300, 4660}

RECURSIVE StringsOfLength(_)
StringsOfLength(n) ==
    IF n = 0 THEN {<<>>}
    ELSE {<<c>> \o s : c \in CodeUnits, s \in StringsOfLength(n - 1)}

\* _write_mtp_string puts the encoding of `string` into an empty buffer; the
\* observation keeps the string.
EncodeString(string) ==
    /\ wire = <<>>
    /\ ev.kind = "none"
    /\ wire' = write_mtp_string(string)
    /\ ev' = [EvQuiet EXCEPT !.kind = "encode", !.params = string]
    /\ UNCHANGED <<py, mtp, fs, ep_in, ep_out, sched, frame, hist>>

\* The decoder of _process_send_object_info reads the string at the start of
\* the buffer; the observation keeps what was encoded (params), what came out
\* (data) and whether struct.unpack_from raised.
DecodeString ==
    /\ ev.kind = "encode"
    /\ LET dec == decode_filename(wire, 0)
       IN ev' = [EvQuiet EXCEPT !.kind = "decode",
                                !.params = ev.params,
                                !.data = IF dec.ok THEN Some(dec.name) ELSE None,
                                !.raised = ~dec.ok]
    /\ UNCHANGED <<py, mtp, fs, ep_in, ep_out, wire, sched, frame, hist>>

NextCodec ==
    \/ \E n \in 0..MaxName : \E string \in StringsOfLength(n) : EncodeString(string)
    \/ DecodeString

SpecCodec == Init /\ [][NextCodec]_vars

\* C26: decoding the bytes that _write_mtp_string produced for a string
\* without a null code unit, the empty string included, yields that string.
C26_StringRoundTrip ==
    ev.kind = "decode" => (~ev.raised /\ ev.data = Some(ev.params))

\* C27: the SendObjectInfo data phase decodes the filename of every payload
\* of 32 bytes or more without reading at or beyond the end of the payload:
\* no read of struct.unpack_from falls outside and raises.
C27_DecodeInBounds ==
    [][(/\ sched' = sched - 1
        /\ ev'.phase = Some(_MTP_OPERATION_SEND_OBJECT_INFO)
        /\ Len(ev'.params) >= 32)
       => ~ev'.raised]_vars

\* C28: the ObjectInfo dataset that GetObjectInfo has just sent for an
\* object, handed to the SendObjectInfo data-phase parser, is parsed without
\* an exception into the object's storage id, format, parent handle and
\* filename.
C28_ObjectInfoLayout ==
    (/\ ev.kind = "cmd"
     /\ ev.code = _MTP_OPERATION_GET_OBJECT_INFO
     /\ ev.resp = Some(_MTP_RESPONSE_OK)
     /\ ev.data # None)
    => LET handle == ev.params[1]
           dataset == ev.data[1]
           w == process_send_object_info(
                   [World EXCEPT
                      !.m.current_operation = Some(_MTP_OPERATION_SEND_OBJECT_INFO)],
                   dataset)
       IN /\ ~w.ev.raised
          /\ w.m.send_object_info # None
          /\ LET info == w.m.send_object_info[1]
             IN /\ info.storage_id = _MTP_STORAGE_ID
                /\ info.format = LE16(dataset, 4)
                /\ info.parent = mtp.parent_map[handle]
                /\ BaseName(info.path) = FileName(mtp.object_handles[handle])

\* ------------------------------------------------------------ parameters
\* A host that sends every parameter-taking operation with too few
\* parameters, the storage operations with the supported storage id, the
\* wildcard and an id the device does not have, and two operation codes
\* that _handle_command has no branch for.
ParamMenu ==
    CommandsAt(_MTP_OPERATION_GET_PARTIAL_OBJECT, {1}, {<<>>, <<2, 0, 1>>})
    \cup CommandsAt(0, {1}, {<<>>, <<1>>})
    \cup
    CommandsAt(_MTP_OPERATION_OPEN_SESSION, {1}, {<<>>, <<1>>})
    \cup CommandsAt(_MTP_OPERATION_GET_STORAGE_INFO, {1},
                    {<<>>, <<_MTP_STORAGE_ID>>, <<_WILDCARD>>, <<5>>})
    \cup CommandsAt(_MTP_OPERATION_GET_NUM_OBJECTS, {1},
                    {<<>>, <<_MTP_STORAGE_ID>>, <<_WILDCARD>>, <<5>>})
    \cup CommandsAt(_MTP_OPERATION_GET_OBJECT_HANDLES, {1},
                    {<<>>, <<_MTP_STORAGE_ID>>, <<_WILDCARD>>, <<5>>})
    \cup CommandsAt(_MTP_OPERATION_GET_OBJECT_INFO, {1}, {<<>>})
    \cup CommandsAt(_MTP_OPERATION_GET_OBJECT, {1}, {<<>>})
    \cup CommandsAt(_MTP_OPERATION_DELETE_OBJECT, {1}, {<<>>})
    \cup CommandsAt(_MTP_OPERATION_SEND_OBJECT_INFO, {1},
                    {<<>>, <<_MTP_STORAGE_ID>>, <<_MTP_STORAGE_ID, 0>>,
                     <<_WILDCARD, 0>>, <<5, 0>>})

NextParam ==
    \/ \E c \in ParamMenu : HostPacket(c)
    \/ OnOpen
    \/ TxComplete
    \/ ProcessRx

SpecParam == Init /\ [][NextParam]_vars

\* C29: in an open session GetStorageInfo, GetNumObjects, GetObjectHandles
\* and SendObjectInfo, given a storage id, answer InvalidStorageID exactly
\* when the id is neither 0x00010001 nor 0xFFFFFFFF, and then send no Data
\* container and leave session, catalog, pending upload and storage (all but
\* the transaction state that every Response resets) as they were.
C29_InvalidStorageID ==
    [][(/\ sched' = sched - 1
        /\ ev'.kind = "cmd"
        /\ mtp.session_open
        /\ \/ /\ ev'.code \in {_MTP_OPERATION_GET_STORAGE_INFO,
                               _MTP_OPERATION_GET_NUM_OBJECTS,
                               _MTP_OPERATION_GET_OBJECT_HANDLES}
              /\ Len(ev'.params) >= 1
           \/ /\ ev'.code = _MTP_OPERATION_SEND_OBJECT_INFO
              /\ Len(ev'.params) >= 2)
       => /\ ev'.resp = Some(_MTP_RESPONSE_INVALID_STORAGE_ID)
             <=> ev'.params[1] \notin {_MTP_STORAGE_ID, _WILDCARD}
          /\ ev'.resp = Some(_MTP_RESPONSE_INVALID_STORAGE_ID)
             => /\ ev'.n_data = 0
                /\ fs' = fs
                /\ [mtp' EXCEPT !.rx = mtp.rx, !.tx = mtp.tx,
                                !.transaction_id = mtp.transaction_id,
                                !.current_operation = mtp.current_operation,
                                !.current_params = mtp.current_params,
                                !.data_expected = mtp.data_expected,
                                !.data_phase_complete = mtp.data_phase_complete]
                   = mtp]_vars

\* C30: OpenSession, and in an open session GetStorageInfo, GetNumObjects,
\* GetObjectHandles, GetObjectInfo, GetObject and DeleteObject without a
\* parameter and SendObjectInfo with fewer than two, are answered
\* InvalidParameter or ParameterNotSupported, send no Data container and
\* leave session, catalog, pending upload and storage (all but the
\* transaction state that every Response resets) as they were.
C30_MissingParameters ==
    [][(/\ sched' = sched - 1
        /\ ev'.kind = "cmd"
        /\ \/ /\ ev'.code = _MTP_OPERATION_OPEN_SESSION
              /\ Len(ev'.params) < 1
           \/ /\ mtp.session_open
              /\ ev'.code \in {_MTP_OPERATION_GET_STORAGE_INFO,
                               _MTP_OPERATION_GET_NUM_OBJECTS,
                               _MTP_OPERATION_GET_OBJECT_HANDLES,
                               _MTP_OPERATION_GET_OBJECT_INFO,
                               _MTP_OPERATION_GET_OBJECT,
                               _MTP_OPERATION_DELETE_OBJECT}
              /\ Len(ev'.params) < 1
           \/ /\ mtp.session_open
              /\ ev'.code = _MTP_OPERATION_SEND_OBJECT_INFO
              /\ Len(ev'.params) < 2)
       => /\ ev'.resp \in {Some(_MTP_RESPONSE_INVALID_PARAMETER),
                           Some(_MTP_RESPONSE_PARAMETER_NOT_SUPPORTED)}
          /\ ev'.n_data = 0
          /\ fs' = fs
          /\ [mtp' EXCEPT !.rx = mtp.rx, !.tx = mtp.tx,
                          !.transaction_id = mtp.transaction_id,
                          !.current_operation = mtp.current_operation,
                          !.current_params = mtp.current_params,
                          !.data_expected = mtp.data_expected,
                          !.data_phase_complete = mtp.data_phase_complete]
             = mtp]_vars

\* C31: in an open session GetObjectInfo, GetObject and DeleteObject on a
\* handle that is not in the catalog are answered InvalidObjectHandle, send
\* no Data container and change neither the catalog nor the storage.
C31_UnknownHandle ==
    [][(/\ sched' = sched - 1
        /\ ev'.kind = "cmd"
        /\ mtp.session_open
        /\ ev'.code \in {_MTP_OPERATION_GET_OBJECT_INFO,
                         _MTP_OPERATION_GET_OBJECT,
                         _MTP_OPERATION_DELETE_OBJECT}
        /\ ev'.params # <<>>
        /\ ev'.params[1] \notin DOMAIN mtp.object_handles)
       => /\ ev'.resp = Some(_MTP_RESPONSE_INVALID_OBJECT_HANDLE)
          /\ ev'.n_data = 0
          /\ ev'.data = None
          /\ mtp'.object_handles = mtp.object_handles
          /\ mtp'.parent_map = mtp.parent_map
          /\ mtp'.next_object_handle = mtp.next_object_handle
          /\ fs' = fs]_vars

\* A DeleteObject on handle 2, deleted earlier in the session, has been
\* answered InvalidObjectHandle.
C31_Witness ==
    /\ ev.kind = "cmd"
    /\ ev.code = _MTP_OPERATION_DELETE_OBJECT
    /\ ev.params = <<2>>
    /\ ev.resp = Some(_MTP_RESPONSE_INVALID_OBJECT_HANDLE)
    /\ mtp.session_open
    /\ 2 \notin DOMAIN mtp.object_handles
    /\ hist.writes > 0

\* C32: in an open session a Command whose operation code is none of the
\* twelve that _handle_command dispatches is answered OperationNotSupported,
\* sends no Data container and changes neither session, catalog, pending
\* upload nor storage.
C32_OperationNotSupported ==
    [][(/\ sched' = sched - 1
        /\ ev'.kind = "cmd"
        /\ mtp.session_open
        /\ ev'.code \notin {_MTP_OPERATION_GET_DEVICE_INFO,
                            _MTP_OPERATION_OPEN_SESSION,
                            _MTP_OPERATION_CLOSE_SESSION,
                            _MTP_OPERATION_GET_STORAGE_IDS,
                            _MTP_OPERATION_GET_STORAGE_INFO,
                            _MTP_OPERATION_GET_NUM_OBJECTS,
                            _MTP_OPERATION_GET_OBJECT_HANDLES,
                            _MTP_OPERATION_GET_OBJECT_INFO,
                            _MTP_OPERATION_GET_OBJECT,
                            _MTP_OPERATION_DELETE_OBJECT,
                            _MTP_OPERATION_SEND_OBJECT_INFO,
                            _MTP_OPERATION_SEND_OBJECT})
       => /\ ev'.resp = Some(_MTP_RESPONSE_OPERATION_NOT_SUPPORTED)
          /\ ev'.n_data = 0
          /\ ev'.data = None
          /\ fs' = fs
          /\ [mtp' EXCEPT !.rx = mtp.rx, !.tx = mtp.tx,
                          !.transaction_id = mtp.transaction_id,
                          !.current_operation = mtp.current_operation,
                          !.current_params = mtp.current_params,
                          !.data_expected = mtp.data_expected,
                          !.data_phase_complete = mtp.data_phase_complete]
             = mtp]_vars

\* A Command with operation code 0 has been answered OperationNotSupported
\* in an open session.
C32_Witness ==
    /\ ev.kind = "cmd"
    /\ ev.code = 0
    /\ ev.resp = Some(_MTP_RESPONSE_OPERATION_NOT_SUPPORTED)
    /\ mtp.session_open

\* C33: a step that handles a Command emits its Data and Response containers
\* under that Command's transaction id (and operation code), and a step that
\* takes an inbound Data container as the data phase of the pending
\* transaction does so only if the container's transaction id and code are
\* those of the pending Command.
C33_TransactionId ==
    [][(sched' = sched - 1)
       => /\ ev'.kind = "cmd"
             => /\ mtp'.transaction_id = ev'.tid
                /\ mtp'.current_operation \in {None, Some(ev'.code)}
          /\ (ev'.kind = "data" /\ ev'.phase # None)
             => /\ ev'.tid = mtp.transaction_id
                /\ Some(ev'.code) = mtp.current_operation]_vars

\* ------------------------------------------------------------ importlib runs
\* The interpreter starts on a build with or without sys._getframe; the USB
\* engine stays as constructed.
InitImport ==
    /\ mtp = MtpInit
    /\ fs = FsInit
    /\ ep_in = 0
    /\ ep_out = 0
    /\ wire = <<>>
    /\ sched = 0
    /\ frame = FrameIdle
    /\ ev = EvQuiet
    /\ hist = HistInit
    /\ py \in {PyInit(getframe) : getframe \in BOOLEAN}

NextImport ==
    \/ \E dir \in Dirs : PathAppend(dir)
    \/ \E dir \in Dirs : PathRemove(dir)
    \/ \E name \in ModuleNames : ImportStatement(name)
    \/ \E g \in GlobalNames : Reload(g)

SpecImport == InitImport /\ [][NextImport]_vars

\* C34: importlib.reload(module) raises ImportError and leaves sys.modules
\* alone when sys.modules does not hold that module object under its name;
\* otherwise it returns a new module object, loaded from the first directory
\* of the current search path that has the module and registered in
\* sys.modules, and every global of the caller that was bound to the old
\* module is bound to the new one.
C34_Reload ==
    [][py'.res.op = "reload"
       => LET module == py'.res.module
              fullname == py.objs[module].name
              newmod == py'.res.value
          IN IF py.modules[fullname] # Some(module)
             THEN /\ py'.res.raised
                  /\ py'.modules = py.modules
             ELSE /\ ~py'.res.raised
                  /\ newmod = Len(py.objs) + 1
                  /\ py'.modules[fullname] = Some(newmod)
                  /\ FindModule(py.path) # None
                  /\ py'.objs[newmod] = [name |-> fullname,
                                         test_data |-> test_data(FindModule(py.path)[1])]
                  /\ \A g \in GlobalNames :
                        py.globals[g] = Some(module) => py'.globals[g] = Some(newmod)]_vars

\* C35: when a Command is parsed while the previous transaction still waits
\* for its Data container (SendObjectInfo or SendObject accepted, no Response
\* sent yet) and the new Command is answered, a Response for the previous
\* transaction has been written first: the step writes two Responses.
C35_PendingAnswered ==
    [][(/\ sched' = sched - 1
        /\ ev'.kind = "cmd"
        /\ mtp.open
        /\ mtp.data_expected
        /\ ev'.resp # None)
       => ev'.n_resp >= 2]_vars

\* ---------------------------------------------------------------------------
\* A host that sends faster than the device processes.
\* ---------------------------------------------------------------------------

\* The host queues container c; it never has more in flight than the RX
\* buffer can hold.
HostFill(c) ==
    /\ mtp.open
    /\ Len(wire) + Len(mtp.rx) + Len(c) <= RxSize
    /\ wire' = wire \o c
    /\ ev' = EvQuiet
    /\ hist' = [hist EXCEPT !.sent = Append(@, SentAs(c))]
    /\ UNCHANGED <<py, mtp, fs, ep_in, ep_out, sched, frame>>

NextStall ==
    \/ HostFill(CommandContainer(_MTP_OPERATION_OPEN_SESSION, 1, <<1>>))
    \/ RxPacket
    \/ OnOpen
    \/ TxComplete
    \/ ProcessRx

\* Every pending transfer completes when the host has bytes for it, and
\* every scheduled _process_rx runs.
SpecStall ==
    /\ Init
    /\ [][NextStall]_vars
    /\ WF_vars(RxPacket)
    /\ WF_vars(TxComplete)
    /\ ProcessRxFair

\* C36: whenever the interface is open and the RX buffer has writable space,
\* an OUT transfer is pending or is submitted later on.
C36_ReceptionResumes ==
    (mtp.open /\ BufWritable(mtp.rx, RxSize) > 0) ~> (ep_out > 0)

\* C37: while a session is open, every catalog entry that names a parent
\* (the root and objects at the top level name none) has that parent in the
\* catalog.
C37_NoDanglingParents ==
    mtp.session_open
    => \A handle \in DOMAIN mtp.object_handles :
          (handle \in DOMAIN mtp.parent_map /\ mtp.parent_map[handle] # 0)
          => mtp.parent_map[handle] \in DOMAIN mtp.object_handles

\* C38: GetNumObjects, asked with the parameters that GetObjectHandles has
\* just been answered for and with the catalog as that answer left it,
\* reports as its count the number of handles in the array GetObjectHandles
\* sent.
C38_CountAgrees ==
    (/\ ev.kind = "cmd"
     /\ ev.code = _MTP_OPERATION_GET_OBJECT_HANDLES
     /\ ev.resp = Some(_MTP_RESPONSE_OK)
     /\ ev.data # None)
    => LET w == cmd_get_num_objects(World, ev.params)
       IN /\ w.ev.resp = Some(_MTP_RESPONSE_OK)
          /\ w.ev.resp_params = <<LE32(ev.data[1], 0)>>
          /\ 4 + 4 * LE32(ev.data[1], 0) = Len(ev.data[1])

\* C39: a pending OUT transfer implies an open interface and a window of at
\* most one packet inside the writable space of the RX buffer; a pending IN
\* transfer implies an open interface and a window inside the readable data
\* of the TX buffer; and a transfer is submitted on an endpoint only when
\* none is pending there: a pending window changes only when its transfer
\* completes.
C39_OneTransferPerEndpoint ==
    [][/\ ep_out' > 0 => /\ mtp'.open
                         /\ ep_out' <= _BULK_EP_LEN
                         /\ ep_out' <= BufWritable(mtp'.rx, RxSize)
       /\ ep_in' > 0 => /\ mtp'.open
                        /\ ep_in' <= BufReadable(mtp'.tx)
       /\ (ep_out > 0 /\ ep_out' > 0 /\ ep_out' # ep_out)
          => (sched' = sched + 1 /\ Len(mtp'.rx) > Len(mtp.rx))
       /\ (ep_in > 0 /\ ep_in' > 0 /\ ep_in' # ep_in)
          => Len(mtp'.tx) = Len(mtp.tx) - ep_in]_vars

\* After a bus reset and a new on_open, an IN transfer is pending while an
\* OUT transfer is pending as well.
C39_Witness ==
    /\ ep_in > 0
    /\ ep_out > 0
    /\ hist.rx_stale + hist.tx_stale > 0

\* C40: after every step the session is open exactly if the session id is
\* not 0; an OpenSession answered OK has stored its non-zero parameter as
\* the session id; OpenSession with id 0 is answered InvalidParameter and
\* leaves flag and id as they were; CloseSession in an open session and a
\* bus reset leave the flag false and the id 0.
C40_SessionFlagAndId ==
    [][/\ mtp'.session_open <=> mtp'.session_id # 0
       /\ (sched' = sched - 1 /\ ev'.kind = "cmd"
                              /\ ev'.code = _MTP_OPERATION_OPEN_SESSION)
          => /\ ev'.resp = Some(_MTP_RESPONSE_OK)
                => /\ ev'.params # <<>>
                   /\ ev'.params[1] # 0
                   /\ ~mtp.session_open
                   /\ mtp'.session_open
                   /\ mtp'.session_id = ev'.params[1]
             /\ (ev'.params # <<>> /\ ev'.params[1] = 0)
                => /\ ev'.resp = Some(_MTP_RESPONSE_INVALID_PARAMETER)
                   /\ mtp'.session_open = mtp.session_open
                   /\ mtp'.session_id = mtp.session_id
       /\ (sched' = sched - 1 /\ ev'.kind = "cmd"
                              /\ ev'.code = _MTP_OPERATION_CLOSE_SESSION
                              /\ mtp.session_open)
          => (~mtp'.session_open /\ mtp'.session_id = 0)
       /\ ev'.kind = "reset"
          => (~mtp'.session_open /\ mtp'.session_id = 0)]_vars

\* An OpenSession with id 2 has been answered OK and the session is open
\* with id 2.
C40_Witness ==
    /\ ev.kind = "cmd"
    /\ ev.code = _MTP_OPERATION_OPEN_SESSION
    /\ ev.resp = Some(_MTP_RESPONSE_OK)
    /\ mtp.session_open
    /\ mtp.session_id = 2

=============================================================================
